---- MODULE Spec2Model ----
(***************************************************************************)
(* Model of the diffloupe diff decomposition core: the unified-diff parser *)
(* (services/diff-parser.ts), the file classifier and budget loader        *)
(* (services/diff-loader.ts), the strategy selector                        *)
(* (services/decomposition/strategy-selector.ts), the flow detector        *)
(* (services/decomposition/flow-detection.ts), the two-pass executor       *)
(* (runTwoPassAnalysis) and the flow-based executor                        *)
(* (services/decomposition/flow-analysis.ts).  An executor is a state      *)
(* machine with one action per continuation between two awaits.            *)
(*                                                                         *)
(* Text is modelled by TLA+ strings; a character is a string of length 1.  *)
(* The pure functions of the program are operators computed the way the    *)
(* code computes them; each has a specification that draws its arguments   *)
(* from bounded sets and applies it.                                       *)
(***************************************************************************)
EXTENDS Integers, Sequences, FiniteSets, TLC

VARIABLES
    pc,             \* position of the running operation: "ready", "awaiting"
                    \* (suspended in the analyzer call), "done"
    metrics,        \* selectStrategy: the DiffMetrics argument
    selection,      \* selectStrategy: the StrategySelection returned
    rawLines,       \* parseDiff: rawDiff.split("\n")
    parsed,         \* parseDiff: the ParsedDiff returned (or the error thrown)
    file,           \* classifyFile: the DiffFile argument
    classification, \* classifyFile: the {tier, reason} returned
    diff,           \* classifyDiff: the ParsedDiff argument (its files)
    classified,     \* classifyDiff: the ClassifiedFile[] returned
    budgetList,     \* loadForBudget: the classified argument
    maxTokens,      \* loadForBudget: the maxTokens argument
    budgetResult,   \* loadForBudget: the LoadBudgetResult returned
    flowInput,      \* detectFlows: the classified argument
    flowResponse,   \* detectFlows: the analyzer response received
    flowResult,     \* detectFlows: the FlowDetectionResult returned
    runClassified,  \* executors: the classified argument
    calls,          \* executors: the state of each single analyzer call
    callCount,      \* executors: the analyzer calls issued so far
    overview,       \* runTwoPassAnalysis: the OverviewResult
    deepDive,       \* runTwoPassAnalysis: the deep-dive RiskAssessment
    detection,      \* runFlowBasedAnalysis: flowDetection
    batchStart,     \* analyzeAllFlows: the loop variable i
    flowCalls,      \* analyzeAllFlows: the intent and risk call of each flow
    flowResults,    \* analyzeAllFlows: results
    runResult,      \* executors: the result returned
    estimateFiles,  \* estimateDiffTokens: the files argument
    tokenEstimate,  \* estimateDiffTokens: the DiffTokenEstimate returned
    previewFile,    \* formatFileForOverview: the DiffFile argument
    preview         \* formatFileForOverview: the lines of the text returned

vars == <<pc, metrics, selection, rawLines, parsed, file, classification, diff,
          classified, budgetList, maxTokens, budgetResult, flowInput,
          flowResponse, flowResult, runClassified, calls, callCount, overview,
          deepDive, detection, batchStart, flowCalls, flowResults, runResult,
          estimateFiles, tokenEstimate, previewFile, preview>>

strategyVars == <<metrics, selection>>
parseVars == <<rawLines, parsed>>
classifyFileVars == <<file, classification>>
classifyDiffVars == <<diff, classified>>
budgetVars == <<budgetList, maxTokens, budgetResult>>
flowVars == <<flowInput, flowResponse, flowResult>>
twoPassVars == <<overview, deepDive>>
flowRunVars == <<detection, batchStart, flowCalls, flowResults>>
executorVars == <<runClassified, calls, callCount, runResult, twoPassVars, flowRunVars>>
estimateVars == <<estimateFiles, tokenEstimate>>
previewVars == <<previewFile, preview>>
promptVars == <<estimateVars, previewVars>>

\* The value of a variable that the running specification does not use, and
\* of a result that has not been computed yet.
None == "none"

StrategyIdle == metrics = None /\ selection = None
ParseIdle == rawLines = None /\ parsed = None
ClassifyFileIdle == file = None /\ classification = None
ClassifyDiffIdle == diff = None /\ classified = None
BudgetIdle == budgetList = None /\ maxTokens = None /\ budgetResult = None
FlowIdle == flowInput = None /\ flowResponse = None /\ flowResult = None
TwoPassIdle == overview = None /\ deepDive = None
FlowRunIdle ==
    detection = None /\ batchStart = None /\ flowCalls = None /\ flowResults = None
ExecutorIdle ==
    /\ runClassified = None /\ calls = None /\ callCount = None /\ runResult = None
    /\ TwoPassIdle /\ FlowRunIdle
EstimateIdle == estimateFiles = None /\ tokenEstimate = None
PreviewIdle == previewFile = None /\ preview = None
PromptIdle == EstimateIdle /\ PreviewIdle

(***************************************************************************)
(* String helpers (JavaScript String.prototype methods)                    *)
(***************************************************************************)

\* s.startsWith(p)
StartsWith(s, p) == Len(s) >= Len(p) /\ SubSeq(s, 1, Len(p)) = p

\* s.endsWith(p)
EndsWith(s, p) == Len(s) >= Len(p) /\ SubSeq(s, Len(s) - Len(p) + 1, Len(s)) = p

\* s.includes(p)
Includes(s, p) ==
    \E k \in 1..(Len(s) - Len(p) + 1) : SubSeq(s, k, k + Len(p) - 1) = p

\* s.slice(n) for 0 <= n
Slice(s, n) == IF n >= Len(s) THEN "" ELSE SubSeq(s, n + 1, Len(s))

\* s[k] for a 0-based k
CharAt(s, k) == SubSeq(s, k + 1, k + 1)

\* s.lastIndexOf(c) for a one-character c: 0-based, -1 when absent
LastIndexOf(s, c) ==
    LET hits == {k \in 1..Len(s) : SubSeq(s, k, k) = c}
    IN  IF hits = {} THEN -1
        ELSE (CHOOSE k \in hits : \A j \in hits : j <= k) - 1

\* s.indexOf(p): 0-based, -1 when absent
IndexOf(s, p) ==
    LET hits == {k \in 1..(Len(s) - Len(p) + 1) : SubSeq(s, k, k + Len(p) - 1) = p}
    IN  IF hits = {} THEN -1
        ELSE (CHOOSE k \in hits : \A j \in hits : k <= j) - 1

UpperChars == "ABCDEFGHIJKLMNOPQRSTUVWXYZ"
LowerChars == "abcdefghijklmnopqrstuvwxyz"

\* The characters of a string, as a set
CharsOf(s) == {SubSeq(s, k, k) : k \in 1..Len(s)}

\* toLowerCase of the upper-case letters, tabulated
LowerCharMap == [c \in CharsOf(UpperChars) |-> CharAt(LowerChars, IndexOf(UpperChars, c))]

\* c.toLowerCase() for a one-character c
LowerChar(c) == IF c \in DOMAIN LowerCharMap THEN LowerCharMap[c] ELSE c

\* s.toLowerCase()
RECURSIVE ToLowerCase(_)
ToLowerCase(s) ==
    IF s = "" THEN "" ELSE LowerChar(SubSeq(s, 1, 1)) \o ToLowerCase(Slice(s, 1))

Max(a, b) == IF a >= b THEN a ELSE b
Min(a, b) == IF a <= b THEN a ELSE b

(***************************************************************************)
(* Strategy selector                                                       *)
(***************************************************************************)

SMALL_FILE_THRESHOLD == 15
SMALL_TOKEN_THRESHOLD == 8000
MEDIUM_FILE_THRESHOLD == 40
LARGE_FILE_THRESHOLD == 80

\* Largest file count drawn, and how far around the token threshold the
\* estimated token counts are drawn.
MaxFileCount == 83
TokenSpread == 2

\* A planted off-by-one at the two-pass boundary.
selectStrategyStrictMedium(m) ==
    IF m.fileCount <= SMALL_FILE_THRESHOLD \/ m.estimatedTokens <= SMALL_TOKEN_THRESHOLD
    THEN [strategy |-> "direct",
          reason |-> IF m.fileCount <= SMALL_FILE_THRESHOLD
                     THEN "Small diff" ELSE "Low token count",
          metrics |-> m]
    ELSE IF m.fileCount < MEDIUM_FILE_THRESHOLD
    THEN [strategy |-> "two-pass", reason |-> "Medium diff", metrics |-> m]
    ELSE IF m.fileCount <= LARGE_FILE_THRESHOLD
    THEN [strategy |-> "flow-based", reason |-> "Large diff", metrics |-> m]
    ELSE [strategy |-> "hierarchical", reason |-> "Huge diff", metrics |-> m]

selectStrategy(m) ==
    IF m.fileCount <= SMALL_FILE_THRESHOLD \/ m.estimatedTokens <= SMALL_TOKEN_THRESHOLD
    THEN [strategy |-> "direct",
          reason |-> IF m.fileCount <= SMALL_FILE_THRESHOLD
                     THEN "Small diff" ELSE "Low token count",
          metrics |-> m]
    ELSE IF m.fileCount <= MEDIUM_FILE_THRESHOLD
    THEN [strategy |-> "two-pass", reason |-> "Medium diff", metrics |-> m]
    ELSE IF m.fileCount <= LARGE_FILE_THRESHOLD
    THEN [strategy |-> "flow-based", reason |-> "Large diff", metrics |-> m]
    ELSE [strategy |-> "hierarchical", reason |-> "Huge diff", metrics |-> m]

\* The DiffMetrics values drawn: every file count up to MaxFileCount, token
\* estimates of 0 and around the token threshold.
MetricsInputs ==
    [fileCount : 0..MaxFileCount,
     totalLines : {0},
     estimatedTokens : {0} \cup ((SMALL_TOKEN_THRESHOLD - TokenSpread)..
                                 (SMALL_TOKEN_THRESHOLD + TokenSpread)),
     tier1FileCount : {0}]

InitStrategy ==
    /\ pc = "ready"
    /\ metrics \in MetricsInputs
    /\ selection = None
    /\ ParseIdle /\ ClassifyFileIdle /\ ClassifyDiffIdle /\ BudgetIdle /\ FlowIdle
    /\ ExecutorIdle
    /\ PromptIdle

SelectStrategy ==
    /\ pc = "ready"
    /\ selection' = selectStrategy(metrics)
    /\ pc' = "done"
    /\ UNCHANGED <<executorVars, promptVars, metrics, parseVars, classifyFileVars, classifyDiffVars,
                   budgetVars, flowVars>>

NextStrategy == SelectStrategy

SpecStrategy == InitStrategy /\ [][NextStrategy]_vars

\* C1: selectStrategy returns 'direct' iff fileCount <= 15 or
\* estimatedTokens <= 8000; otherwise 'two-pass' up to 40 files, 'flow-based'
\* for 41..80 files and 'hierarchical' above 80 files.
C1_StrategyThresholds ==
    pc = "done" =>
        LET fc == metrics.fileCount
            tk == metrics.estimatedTokens
        IN  /\ (selection.strategy = "direct") <=> (fc <= 15 \/ tk <= 8000)
            /\ ~(fc <= 15 \/ tk <= 8000) =>
                /\ (fc <= 40) => selection.strategy = "two-pass"
                /\ (41 <= fc /\ fc <= 80) => selection.strategy = "flow-based"
                /\ (fc > 80) => selection.strategy = "hierarchical"
            /\ (fc > 80 /\ tk <= 8000) => selection.strategy = "direct"

\* Reached: 40 files with more than 8000 tokens selected as two-pass.
C1_Witness ==
    /\ pc = "done"
    /\ metrics.fileCount = 40
    /\ metrics.estimatedTokens > 8000
    /\ selection.strategy = "two-pass"

(***************************************************************************)
(* Data model (types/diff.ts, types/loader.ts)                             *)
(***************************************************************************)

\* An optional field is a sequence: empty when undefined, <<v>> when set.
Absent == <<>>
Some(v) == <<v>>

\* DiffLine
MkLine(type, content, oldLineNumber, newLineNumber) ==
    [type |-> type, content |-> content,
     oldLineNumber |-> oldLineNumber, newLineNumber |-> newLineNumber]

\* DiffHunk
MkHunk(oldStart, oldLines, newStart, newLines, header, lines) ==
    [oldStart |-> oldStart, oldLines |-> oldLines, newStart |-> newStart,
     newLines |-> newLines, header |-> header, lines |-> lines]

\* DiffFile
MkFile(path, oldPath, status, hunks, isBinary) ==
    [path |-> path, oldPath |-> oldPath, status |-> status, hunks |-> hunks,
     isBinary |-> isBinary]

(***************************************************************************)
(* File classifier                                                         *)
(***************************************************************************)

SOURCE_CODE_EXTENSIONS ==
    {".ts", ".tsx", ".js", ".jsx", ".mjs", ".cjs", ".py", ".go", ".rs", ".java",
     ".kt", ".scala", ".rb", ".php", ".c", ".cpp", ".cc", ".h", ".hpp", ".cs",
     ".swift", ".m", ".mm", ".vue", ".svelte"}

BEHAVIOR_CONFIG_FILES ==
    {"package.json", "tsconfig.json", "jsconfig.json", "vite.config.ts",
     "vite.config.js", "vite.config.mjs", "webpack.config.ts", "webpack.config.js",
     "webpack.config.mjs", "rollup.config.ts", "rollup.config.js",
     "rollup.config.mjs", "esbuild.config.ts", "esbuild.config.js",
     "next.config.ts", "next.config.js", "next.config.mjs", "nuxt.config.ts",
     "nuxt.config.js", "svelte.config.js", "astro.config.mjs", "remix.config.js",
     "vitest.config.ts", "vitest.config.js", "jest.config.ts", "jest.config.js",
     "playwright.config.ts", "cypress.config.ts", "babel.config.js",
     "babel.config.json", ".babelrc", "tailwind.config.ts", "tailwind.config.js",
     "postcss.config.js", "eslint.config.js", "eslint.config.mjs", ".eslintrc.js",
     ".eslintrc.json", "prettier.config.js", ".prettierrc", ".prettierrc.json",
     "biome.json", "deno.json", "bun.toml", "Cargo.toml", "go.mod",
     "pyproject.toml", "setup.py", "requirements.txt", "Gemfile", "Dockerfile",
     "docker-compose.yml", "docker-compose.yaml", "Makefile", "CMakeLists.txt"}

LOCK_FILES ==
    {"package-lock.json", "yarn.lock", "pnpm-lock.yaml", "bun.lock", "bun.lockb",
     "Cargo.lock", "Gemfile.lock", "poetry.lock", "composer.lock", "go.sum"}

DOC_EXTENSIONS == {".md", ".txt", ".rst", ".adoc"}

CONFIG_EXTENSIONS == {".json", ".yaml", ".yml", ".toml", ".ini"}

getExtension(path) ==
    LET lastDot == LastIndexOf(path, ".")
    IN  IF lastDot = -1 \/ lastDot = Len(path) - 1 THEN ""
        ELSE ToLowerCase(Slice(path, lastDot))

getFilename(path) ==
    LET lastSlash == Max(LastIndexOf(path, "/"), LastIndexOf(path, "\\"))
    IN  IF lastSlash = -1 THEN path ELSE Slice(path, lastSlash + 1)

isTestFile(path) ==
    LET lower == ToLowerCase(path)
        filename == getFilename(lower)
    IN  \/ Includes(lower, ".test.")
        \/ Includes(lower, ".spec.")
        \/ Includes(lower, "_test.")
        \/ Includes(lower, "_spec.")
        \/ Includes(lower, "/test/")
        \/ Includes(lower, "/tests/")
        \/ Includes(lower, "/__tests__/")
        \/ StartsWith(lower, "test/")
        \/ StartsWith(lower, "tests/")
        \/ StartsWith(lower, "__tests__/")
        \/ EndsWith(lower, "_test.go")
        \/ EndsWith(lower, "_test.py")
        \/ StartsWith(filename, "test_")

isGeneratedPath(path) ==
    LET lower == ToLowerCase(path)
    IN  \/ StartsWith(lower, "dist/")
        \/ Includes(lower, "/dist/")
        \/ StartsWith(lower, "build/")
        \/ Includes(lower, "/build/")
        \/ StartsWith(lower, "out/")
        \/ Includes(lower, "/out/")
        \/ StartsWith(lower, ".next/")
        \/ Includes(lower, "/.next/")
        \/ StartsWith(lower, "node_modules/")
        \/ Includes(lower, "/node_modules/")
        \/ StartsWith(lower, "vendor/")
        \/ Includes(lower, "/vendor/")

HexChars == "abcdef0123456789"

\* lower.match(/\.[a-f0-9]{8,}\.js$/) !== null: before the final ".js" a run
\* of at least 8 characters of [a-f0-9] that a "." precedes
MatchesHashedBundle(lower) ==
    /\ EndsWith(lower, ".js")
    /\ \E n \in 8..(Len(lower) - 4) :
          LET first == Len(lower) - 3 - n + 1
          IN  /\ SubSeq(lower, first - 1, first - 1) = "."
              /\ \A k \in first..(Len(lower) - 3) :
                    IndexOf(HexChars, SubSeq(lower, k, k)) # -1

isMinifiedOrBundled(path) ==
    LET lower == ToLowerCase(path)
    IN  \/ EndsWith(lower, ".min.js")
        \/ EndsWith(lower, ".min.css")
        \/ EndsWith(lower, ".bundle.js")
        \/ EndsWith(lower, ".chunk.js")
        \/ Includes(lower, ".min.")
        \/ MatchesHashedBundle(lower)

isCiCdFile(path) ==
    \/ StartsWith(path, ".github/workflows/")
    \/ StartsWith(path, ".gitlab-ci")
    \/ StartsWith(path, ".circleci/")
    \/ StartsWith(path, "azure-pipelines")
    \/ StartsWith(path, "Jenkinsfile")

Result(tier, reason) == [tier |-> tier, reason |-> reason]

\* A planted slip: the general source-code rule tried before the .d.ts and
\* behavior-config rules.
classifyFileSourceFirst(f) ==
    LET path == f.path
        filename == getFilename(path)
        ext == getExtension(path)
    IN  IF f.isBinary THEN Result(3, "binary file")
        ELSE IF filename \in LOCK_FILES THEN Result(3, "lock file")
        ELSE IF isGeneratedPath(path) THEN Result(3, "generated/dist directory")
        ELSE IF isMinifiedOrBundled(path) THEN Result(3, "minified/bundled file")
        ELSE IF isTestFile(path) /\ ext \in SOURCE_CODE_EXTENSIONS
             THEN Result(1, "test file")
        ELSE IF ext \in SOURCE_CODE_EXTENSIONS THEN Result(1, "source code")
        ELSE IF EndsWith(path, ".d.ts") THEN Result(2, "type definition")
        ELSE IF filename \in BEHAVIOR_CONFIG_FILES THEN Result(1, "behavior config")
        ELSE IF isCiCdFile(path) THEN Result(2, "CI/CD config")
        ELSE IF ext \in DOC_EXTENSIONS THEN Result(2, "documentation")
        ELSE IF ext \in CONFIG_EXTENSIONS THEN Result(2, "config file")
        ELSE Result(2, "other")

classifyFile(f) ==
    LET path == f.path
        filename == getFilename(path)
        ext == getExtension(path)
    IN  IF f.isBinary THEN Result(3, "binary file")
        ELSE IF filename \in LOCK_FILES THEN Result(3, "lock file")
        ELSE IF isGeneratedPath(path) THEN Result(3, "generated/dist directory")
        ELSE IF isMinifiedOrBundled(path) THEN Result(3, "minified/bundled file")
        ELSE IF EndsWith(path, ".d.ts") THEN Result(2, "type definition")
        ELSE IF filename \in BEHAVIOR_CONFIG_FILES THEN Result(1, "behavior config")
        ELSE IF isTestFile(path) /\ ext \in SOURCE_CODE_EXTENSIONS
             THEN Result(1, "test file")
        ELSE IF ext \in SOURCE_CODE_EXTENSIONS THEN Result(1, "source code")
        ELSE IF isCiCdFile(path) THEN Result(2, "CI/CD config")
        ELSE IF ext \in DOC_EXTENSIONS THEN Result(2, "documentation")
        ELSE IF ext \in CONFIG_EXTENSIONS THEN Result(2, "config file")
        ELSE Result(2, "other")

\* The paths drawn for classifyFile: at least one per rule, and paths that
\* satisfy several rules at once.
ClassifyPaths ==
    {"src/app.ts", "image.png", "package-lock.json", "sub/yarn.lock", "go.sum",
     "dist/package-lock.json", "dist/index.js", "pkg/build/out.txt",
     "node_modules/a/package.json", "vendor/lib.rb", "Dist/Main.TS", "out/a.d.ts",
     ".next/cache.json", "build.ts", "src/outlet/x.ts",
     "lib/app.min.js", "a.min.css", "x.bundle.js", "x.chunk.js", "a.min.map",
     "main.0123abcd.js", "main.0123abc.js", "main.0123ABCD.js", "main.0123abcg.js",
     "types/api.d.ts", "API.D.TS", "package.json", "vite.config.ts", "Dockerfile",
     "sub/Makefile", "win\\package.json", "Package.json",
     "src/app.test.ts", "docs/app.test.md", "test/helper.js", "tests/fixture.json",
     "pkg/foo_test.go", "test_util.py", "test_data.txt", "src/__tests__/a.tsx",
     "jest.config.ts", "src/test/vite.config.ts", "types/a.test.d.ts",
     ".github/workflows/ci.yml", ".github/workflows/build.ts", ".gitlab-ci.yml",
     ".circleci/config.yml", "azure-pipelines.yml", "Jenkinsfile",
     "sub/Jenkinsfile", "README.md", "a/b.MD", "notes.txt", "config.yaml",
     "settings.ini", "data.json", "LICENSE", "file.", ".gitignore", ""}

ClassifyFileInputs ==
    {MkFile(p, Absent, "modified", <<>>, b) : p \in ClassifyPaths, b \in BOOLEAN}

InitClassifyFile ==
    /\ pc = "ready"
    /\ file \in ClassifyFileInputs
    /\ classification = None
    /\ StrategyIdle /\ ParseIdle /\ ClassifyDiffIdle /\ BudgetIdle /\ FlowIdle
    /\ ExecutorIdle
    /\ PromptIdle

ClassifyFile ==
    /\ pc = "ready"
    /\ classification' = classifyFile(file)
    /\ pc' = "done"
    /\ UNCHANGED <<executorVars, promptVars, file, strategyVars, parseVars, classifyDiffVars, budgetVars,
                   flowVars>>

NextClassifyFile == ClassifyFile

SpecClassifyFile == InitClassifyFile /\ [][NextClassifyFile]_vars

\* The rule cascade as the specification lists it: condition, tier, reason.
CascadeRules(f) ==
    LET ext == getExtension(f.path)
        filename == getFilename(f.path)
    IN  << <<f.isBinary, 3, "binary file">>,
           <<filename \in LOCK_FILES, 3, "lock file">>,
           <<isGeneratedPath(f.path), 3, "generated/dist directory">>,
           <<isMinifiedOrBundled(f.path), 3, "minified/bundled file">>,
           <<EndsWith(f.path, ".d.ts"), 2, "type definition">>,
           <<filename \in BEHAVIOR_CONFIG_FILES, 1, "behavior config">>,
           <<isTestFile(f.path) /\ ext \in SOURCE_CODE_EXTENSIONS, 1, "test file">>,
           <<ext \in SOURCE_CODE_EXTENSIONS, 1, "source code">>,
           <<isCiCdFile(f.path), 2, "CI/CD config">>,
           <<ext \in DOC_EXTENSIONS, 2, "documentation">>,
           <<ext \in CONFIG_EXTENSIONS, 2, "config file">>,
           <<TRUE, 2, "other">> >>

FirstRule(f) ==
    LET rules == CascadeRules(f)
        k == CHOOSE i \in 1..Len(rules) :
                 rules[i][1] /\ \A j \in 1..(i - 1) : ~rules[j][1]
    IN  rules[k]

\* C8: classifyFile returns the tier and reason of the first rule of the
\* cascade (binary, lock file, generated directory, minified/bundled, .d.ts,
\* behavior config, test file with a source extension, source code, CI/CD,
\* documentation, config extension, other) that the file satisfies; the tier
\* is 1, 2 or 3, and a binary file or a file under a generated directory is
\* tier 3 whatever its name or extension.
C8_FirstRuleWins ==
    pc = "done" =>
        /\ classification.tier = FirstRule(file)[2]
        /\ classification.reason = FirstRule(file)[3]
        /\ classification.tier \in {1, 2, 3}
        /\ file.isBinary => classification = Result(3, "binary file")
        /\ (~file.isBinary /\ isGeneratedPath(file.path)) => classification.tier = 3

\* Reached: a behavior-config name with a source extension, outside any
\* generated directory, classified as behavior config (rule 6 before rule 8).
C8_Witness ==
    /\ pc = "done"
    /\ file.path = "vite.config.ts"
    /\ ~file.isBinary
    /\ classification = Result(1, "behavior config")

(***************************************************************************)
(* classifyDiff                                                            *)
(***************************************************************************)

\* Math.ceil(n / d) for n >= 0, d > 0
CeilDiv(n, d) == (n + d - 1) \div d

RECURSIVE SumSeq(_)
SumSeq(s) == IF s = <<>> THEN 0 ELSE Head(s) + SumSeq(Tail(s))

\* estimateTokens(hunks) of diff-loader.ts
estimateTokens(hunks) ==
    LET hunkChars(h) ==
            Len(h.header) + SumSeq([k \in 1..Len(h.lines) |-> Len(h.lines[k].content) + 2])
        totalChars == SumSeq([k \in 1..Len(hunks) |-> hunkChars(hunks[k])])
    IN  CeilDiv(totalChars, 4)

\* The collation order of the characters of the paths drawn (punctuation,
\* then digits, then letters; case is a lower-level difference).
CollationOrder == " _-,;:!?.'()[]{}@*/\\&#%+<=>|~$0123456789abcdefghijklmnopqrstuvwxyz"

\* The position of each character in the collation order, tabulated
CollationWeight == [c \in CharsOf(CollationOrder) |-> IndexOf(CollationOrder, c)]

PrimaryWeight(c) == CollationWeight[LowerChar(c)]

\* Lexicographic comparison of the primary weights: -1, 0 or 1
RECURSIVE PrimaryCompare(_, _)
PrimaryCompare(a, b) ==
    IF a = "" /\ b = "" THEN 0
    ELSE IF a = "" THEN -1
    ELSE IF b = "" THEN 1
    ELSE LET wa == PrimaryWeight(SubSeq(a, 1, 1))
             wb == PrimaryWeight(SubSeq(b, 1, 1))
         IN  IF wa < wb THEN -1
             ELSE IF wa > wb THEN 1
             ELSE PrimaryCompare(Slice(a, 1), Slice(b, 1))

IsUpper(c) == c \in DOMAIN LowerCharMap

\* Case comparison of two strings of equal primary weights: at the first
\* position where the case differs the lower-case string comes first.
RECURSIVE CaseCompare(_, _)
CaseCompare(a, b) ==
    IF a = "" \/ b = "" THEN 0
    ELSE LET ua == IsUpper(SubSeq(a, 1, 1))
             ub == IsUpper(SubSeq(b, 1, 1))
         IN  IF ~ua /\ ub THEN -1
             ELSE IF ua /\ ~ub THEN 1
             ELSE CaseCompare(Slice(a, 1), Slice(b, 1))

\* a.localeCompare(b)
LocaleCompare(a, b) ==
    LET p == PrimaryCompare(a, b)
    IN  IF p # 0 THEN p ELSE CaseCompare(a, b)

\* A planted slip: the comparator forgets the path tie-break.
classifyDiffCompareTierOnly(a, b) == a.tier - b.tier

\* The comparator passed to sort in classifyDiff
classifyDiffCompare(a, b) ==
    IF a.tier # b.tier THEN a.tier - b.tier
    ELSE LocaleCompare(a.file.path, b.file.path)

\* classified.sort(cmp): Array.prototype.sort is stable, so an element goes
\* behind every element that compares smaller and behind the equal ones that
\* preceded it.
sortClassified(seq) ==
    LET n == Len(seq)
        pos(i) == 1 + Cardinality({j \in 1..n : classifyDiffCompare(seq[j], seq[i]) < 0})
                    + Cardinality({j \in 1..(i - 1) : classifyDiffCompare(seq[j], seq[i]) = 0})
    IN  [k \in 1..n |-> seq[CHOOSE i \in 1..n : pos(i) = k]]

classifyDiff(files) ==
    LET mapped == [k \in 1..Len(files) |->
                      LET r == classifyFile(files[k])
                      IN  [file |-> files[k], tier |-> r.tier, reason |-> r.reason,
                           estimatedTokens |-> estimateTokens(files[k].hunks)]]
    IN  sortClassified(mapped)

\* Most files drawn for one diff
MaxDiffFiles == 3

SampleHunk ==
    MkHunk(1, 1, 1, 2, "@@ -1 +1,2 @@",
           <<MkLine("context", "a", Some(1), Some(1)), MkLine("add", "bcd", Absent, Some(2))>>)

\* The files drawn for classifyDiff: all three tiers, paths that differ in
\* case, in punctuation and by a prefix.
DiffFileInputs ==
    {MkFile("src/b.ts", Absent, "modified", <<SampleHunk>>, FALSE),
     MkFile("src/B.ts", Absent, "added", <<>>, FALSE),
     MkFile("src/a.ts", Absent, "modified", <<SampleHunk, SampleHunk>>, FALSE),
     MkFile("src/a_b.ts", Absent, "deleted", <<>>, FALSE),
     MkFile("src/a", Absent, "modified", <<>>, FALSE),
     MkFile("README.md", Absent, "modified", <<SampleHunk>>, FALSE),
     MkFile("Zed.md", Absent, "modified", <<>>, FALSE),
     MkFile("yarn.lock", Absent, "modified", <<SampleHunk>>, FALSE),
     MkFile("a.png", Absent, "added", <<>>, TRUE)}

SeqsUpTo(S, n) == UNION {[1..k -> S] : k \in 0..n}

InitClassifyDiff ==
    /\ pc = "ready"
    /\ diff \in SeqsUpTo(DiffFileInputs, MaxDiffFiles)
    /\ classified = None
    /\ StrategyIdle /\ ParseIdle /\ ClassifyFileIdle /\ BudgetIdle /\ FlowIdle
    /\ ExecutorIdle
    /\ PromptIdle

ClassifyDiff ==
    /\ pc = "ready"
    /\ classified' = classifyDiff(diff)
    /\ pc' = "done"
    /\ UNCHANGED <<executorVars, promptVars, diff, strategyVars, parseVars, classifyFileVars, budgetVars,
                   flowVars>>

NextClassifyDiff == ClassifyDiff

SpecClassifyDiff == InitClassifyDiff /\ [][NextClassifyDiff]_vars

\* C9: the list returned by classifyDiff has non-decreasing tiers and, among
\* neighbours of equal tier, paths that are non-decreasing under the locale
\* comparator.
C9_TierThenPathSorted ==
    pc = "done" =>
        \A k \in 1..(Len(classified) - 1) :
            /\ classified[k].tier <= classified[k + 1].tier
            /\ classified[k].tier = classified[k + 1].tier =>
                  LocaleCompare(classified[k].file.path, classified[k + 1].file.path) <= 0

\* Reached: a diff given as src/B.ts, src/a.ts (descending under the locale
\* comparator although ascending by code unit) returned as src/a.ts, src/B.ts.
C9_Witness ==
    /\ pc = "done"
    /\ Len(diff) = 2
    /\ diff[1].path = "src/B.ts" /\ diff[2].path = "src/a.ts"
    /\ classified[1].file.path = "src/a.ts" /\ classified[2].file.path = "src/B.ts"

(***************************************************************************)
(* loadForBudget                                                           *)
(***************************************************************************)

LoadResult(included, excluded, totalTokens) ==
    [included |-> included, excluded |-> excluded, totalTokens |-> totalTokens]

\* A planted slip: each file is compared with the budget on its own, without
\* the running total.
RECURSIVE loadLoopNoRunningTotal(_, _, _, _)
loadLoopNoRunningTotal(list, budget, k, acc) ==
    IF k > Len(list) THEN acc
    ELSE LET cf == list[k]
         IN  IF cf.estimatedTokens <= budget
             THEN loadLoopNoRunningTotal(list, budget, k + 1,
                      LoadResult(Append(acc.included, cf), acc.excluded,
                                 acc.totalTokens + cf.estimatedTokens))
             ELSE loadLoopNoRunningTotal(list, budget, k + 1,
                      LoadResult(acc.included, Append(acc.excluded, cf), acc.totalTokens))

\* A planted slip: the walk stops at the first file that does not fit, and
\* every later file is excluded.
RECURSIVE loadLoopStopAtOverflow(_, _, _, _)
loadLoopStopAtOverflow(list, budget, k, acc) ==
    IF k > Len(list) THEN acc
    ELSE LET cf == list[k]
         IN  IF acc.totalTokens + cf.estimatedTokens <= budget
             THEN loadLoopStopAtOverflow(list, budget, k + 1,
                      LoadResult(Append(acc.included, cf), acc.excluded,
                                 acc.totalTokens + cf.estimatedTokens))
             ELSE LoadResult(acc.included,
                             acc.excluded \o SubSeq(list, k, Len(list)),
                             acc.totalTokens)

\* A planted slip: the comparison with the budget is strict.
RECURSIVE loadLoopStrictLess(_, _, _, _)
loadLoopStrictLess(list, budget, k, acc) ==
    IF k > Len(list) THEN acc
    ELSE LET cf == list[k]
         IN  IF acc.totalTokens + cf.estimatedTokens < budget
             THEN loadLoopStrictLess(list, budget, k + 1,
                      LoadResult(Append(acc.included, cf), acc.excluded,
                                 acc.totalTokens + cf.estimatedTokens))
             ELSE loadLoopStrictLess(list, budget, k + 1,
                      LoadResult(acc.included, Append(acc.excluded, cf), acc.totalTokens))

\* The for loop of loadForBudget from element k on, acc holding included,
\* excluded and totalTokens so far
\* A planted slip: a file with an estimate of 0 is never included.
RECURSIVE loadLoopExcludesEmpty(_, _, _, _)
loadLoopExcludesEmpty(list, budget, k, acc) ==
    IF k > Len(list) THEN acc
    ELSE LET cf == list[k]
         IN  IF cf.estimatedTokens > 0 /\ acc.totalTokens + cf.estimatedTokens <= budget
             THEN loadLoopExcludesEmpty(list, budget, k + 1,
                      LoadResult(Append(acc.included, cf), acc.excluded,
                                 acc.totalTokens + cf.estimatedTokens))
             ELSE loadLoopExcludesEmpty(list, budget, k + 1,
                      LoadResult(acc.included, Append(acc.excluded, cf), acc.totalTokens))

RECURSIVE loadLoop(_, _, _, _)
loadLoop(list, budget, k, acc) ==
    IF k > Len(list) THEN acc
    ELSE LET cf == list[k]
         IN  IF acc.totalTokens + cf.estimatedTokens <= budget
             THEN loadLoop(list, budget, k + 1,
                      LoadResult(Append(acc.included, cf), acc.excluded,
                                 acc.totalTokens + cf.estimatedTokens))
             ELSE loadLoop(list, budget, k + 1,
                      LoadResult(acc.included, Append(acc.excluded, cf), acc.totalTokens))

loadForBudget(list, budget) == loadLoop(list, budget, 1, LoadResult(<<>>, <<>>, 0))

\* Most files in a list drawn for loadForBudget, the largest token estimate
\* of one file and the largest budget
MaxBudgetFiles == 3
MaxEstimate == 3
MaxBudget == 4

\* The k-th file of a drawn list: a.ts, b.ts, ...
BudgetFile(k, est) ==
    [file |-> MkFile(SubSeq(LowerChars, k, k) \o ".ts", Absent, "modified", <<>>, FALSE),
     tier |-> 1, reason |-> "source code", estimatedTokens |-> est]

BudgetLists ==
    {[k \in 1..Len(ests) |-> BudgetFile(k, ests[k])] :
        ests \in SeqsUpTo(0..MaxEstimate, MaxBudgetFiles)}

InitBudget ==
    /\ pc = "ready"
    /\ budgetList \in BudgetLists
    /\ maxTokens \in (-1)..MaxBudget
    /\ budgetResult = None
    /\ StrategyIdle /\ ParseIdle /\ ClassifyFileIdle /\ ClassifyDiffIdle /\ FlowIdle
    /\ ExecutorIdle
    /\ PromptIdle

LoadForBudget ==
    /\ pc = "ready"
    /\ budgetResult' = loadForBudget(budgetList, maxTokens)
    /\ pc' = "done"
    /\ UNCHANGED <<executorVars, promptVars, budgetList, maxTokens, strategyVars, parseVars, classifyFileVars,
                   classifyDiffVars, flowVars>>

NextBudget == LoadForBudget

SpecBudget == InitBudget /\ [][NextBudget]_vars

IncludedSum ==
    SumSeq([k \in 1..Len(budgetResult.included) |-> budgetResult.included[k].estimatedTokens])

\* C10 as stated: for any budget, totalTokens is the sum of the included
\* estimates and does not exceed the requested budget.
C10_Original ==
    pc = "done" =>
        /\ budgetResult.totalTokens = IncludedSum
        /\ budgetResult.totalTokens <= maxTokens

\* C10 (amended): totalTokens is the sum of the included files' estimates,
\* and it does not exceed the requested budget whenever that budget is not
\* negative.
C10_TotalWithinBudget ==
    pc = "done" =>
        /\ budgetResult.totalTokens = IncludedSum
        /\ maxTokens >= 0 => budgetResult.totalTokens <= maxTokens

\* Reached: a non-negative budget under which one file was included, a file
\* was skipped, and a later file was included again.
C10_Witness ==
    /\ pc = "done"
    /\ maxTokens >= 0
    /\ Len(budgetResult.included) = 2
    /\ Len(budgetResult.excluded) = 1
    /\ budgetResult.excluded[1] = budgetList[2]
    /\ budgetResult.totalTokens > 0

\* The files of the list that loadForBudget included (the paths of a list are
\* distinct)
IncludedSet == {budgetResult.included[i] : i \in 1..Len(budgetResult.included)}

\* The estimates of the included files among the first k - 1 of the list
IncludedBefore(k) ==
    SumSeq([j \in 1..(k - 1) |->
               IF budgetList[j] \in IncludedSet THEN budgetList[j].estimatedTokens ELSE 0])

IsIncluded(cf) == cf \in IncludedSet

IsExcluded(cf) == cf \notin IncludedSet

\* C11: walking the list in order, a file is included if and only if the
\* running total of the estimates already included plus its own estimate is
\* at most maxTokens; a skipped file does not stop the walk; included and
\* excluded keep the order of the list.
C11_GreedyFill ==
    pc = "done" =>
        /\ \A k \in 1..Len(budgetList) :
              (budgetList[k] \in IncludedSet)
                  <=> (IncludedBefore(k) + budgetList[k].estimatedTokens <= maxTokens)
        /\ budgetResult.included = SelectSeq(budgetList, IsIncluded)
        /\ budgetResult.excluded = SelectSeq(budgetList, IsExcluded)

\* Reached: the first file of the list was skipped and a later file that fits
\* was included, so the included files are not a prefix of the list.
C11_Witness ==
    /\ pc = "done"
    /\ Len(budgetList) >= 2
    /\ budgetList[1] \notin IncludedSet
    /\ \E k \in 2..Len(budgetList) :
          budgetList[k] \in IncludedSet /\ budgetList[k].estimatedTokens > 0

HasZeroEstimate(cf) == cf.estimatedTokens = 0

HasPositiveEstimate(cf) == cf.estimatedTokens > 0

\* C12 as stated: with a budget of 0 no file is included and every file of
\* the list is excluded.
C12_Original ==
    (pc = "done" /\ maxTokens = 0) =>
        /\ budgetResult.included = <<>>
        /\ budgetResult.excluded = budgetList

\* C12 (amended): with a budget of 0 the included files are exactly the files
\* whose estimate is 0 and every file with a positive estimate is excluded;
\* totalTokens is 0.
C12_ZeroBudget ==
    (pc = "done" /\ maxTokens = 0) =>
        /\ budgetResult.included = SelectSeq(budgetList, HasZeroEstimate)
        /\ budgetResult.excluded = SelectSeq(budgetList, HasPositiveEstimate)
        /\ budgetResult.totalTokens = 0

\* Reached: a budget of 0 for a list holding a file with a positive estimate
\* and a file with estimate 0; the former is excluded, the latter included.
C12_Witness ==
    /\ pc = "done"
    /\ maxTokens = 0
    /\ \E k \in 1..Len(budgetList) : budgetList[k].estimatedTokens > 0
    /\ \E k \in 1..Len(budgetList) : budgetList[k].estimatedTokens = 0
    /\ Len(budgetResult.included) >= 1
    /\ Len(budgetResult.excluded) >= 1

(***************************************************************************)
(* Flow detector                                                           *)
(***************************************************************************)

\* A priority is held in tenths (15 stands for 1.5), so that Math.round has
\* something to round.
\* Math.round(p) for a priority p in tenths
MathRound(tenths) == (tenths + 5) \div 10

\* Math.max(1, Math.min(10, Math.round(flow.priority)))
ClampPriority(tenths) == Max(1, Min(10, MathRound(tenths)))

SeqToSet(seq) == {seq[k] : k \in 1..Len(seq)}

\* classified.filter((cf) => cf.tier <= 2)
RelevantFiles(cls) == LET Keep(cf) == cf.tier <= 2 IN SelectSeq(cls, Keep)

\* A planted slip: the filter forgets the files claimed by earlier flows.
RECURSIVE validateFlowsNoAssignedCheck(_, _, _, _, _)
validateFlowsNoAssignedCheck(flows, allFilePaths, k, assignedFiles, validatedFlows) ==
    IF k > Len(flows)
    THEN [assignedFiles |-> assignedFiles, validatedFlows |-> validatedFlows]
    ELSE LET flow == flows[k]
             Valid(f) == f \in allFilePaths
             validFiles == SelectSeq(flow.files, Valid)
         IN  validateFlowsNoAssignedCheck(flows, allFilePaths, k + 1,
                 assignedFiles \cup SeqToSet(validFiles),
                 IF Len(validFiles) > 0
                 THEN Append(validatedFlows,
                             [name |-> flow.name, description |-> flow.description,
                              files |-> validFiles,
                              priority |-> ClampPriority(flow.priority)])
                 ELSE validatedFlows)

\* The validation loop of detectFlows over response.flows from flow k on
RECURSIVE validateFlows(_, _, _, _, _)
validateFlows(flows, allFilePaths, k, assignedFiles, validatedFlows) ==
    IF k > Len(flows)
    THEN [assignedFiles |-> assignedFiles, validatedFlows |-> validatedFlows]
    ELSE LET flow == flows[k]
             Valid(f) == f \in allFilePaths /\ f \notin assignedFiles
             validFiles == SelectSeq(flow.files, Valid)
         IN  validateFlows(flows, allFilePaths, k + 1,
                 assignedFiles \cup SeqToSet(validFiles),
                 IF Len(validFiles) > 0
                 THEN Append(validatedFlows,
                             [name |-> flow.name, description |-> flow.description,
                              files |-> validFiles,
                              priority |-> ClampPriority(flow.priority)])
                 ELSE validatedFlows)

\* The comparator passed to sort in detectFlows
flowPriorityCompare(a, b) == a.priority - b.priority

\* A planted slip: the validated flows are not sorted.
sortFlowsKeepsOrder(seq) == seq

\* validatedFlows.sort(cmp), a stable sort
sortFlows(seq) ==
    LET n == Len(seq)
        pos(i) == 1 + Cardinality({j \in 1..n : flowPriorityCompare(seq[j], seq[i]) < 0})
                    + Cardinality({j \in 1..(i - 1) : flowPriorityCompare(seq[j], seq[i]) = 0})
    IN  [k \in 1..n |-> seq[CHOOSE i \in 1..n : pos(i) = k]]

\* detectFlows from the analyzer's response on
detectFlows(cls, response) ==
    LET relevantFiles == RelevantFiles(cls)
        allFilePaths == {relevantFiles[k].file.path : k \in 1..Len(relevantFiles)}
        v == validateFlows(response.flows, allFilePaths, 1, {}, <<>>)
        Unassigned(cf) == cf.file.path \notin v.assignedFiles
        left == SelectSeq(relevantFiles, Unassigned)
    IN  [flows |-> sortFlows(v.validatedFlows),
         uncategorized |-> [k \in 1..Len(left) |-> left[k].file.path]]

\* Most flows in a response, and most paths in one flow of a response
MaxFlows == 2
MaxFlowFiles == 2

\* The diff whose flows are detected: two tier-1 files, a tier-2 file and a
\* tier-3 file
FlowDiff ==
    <<MkFile("yarn.lock", Absent, "modified", <<SampleHunk>>, FALSE),
      MkFile("src/b.ts", Absent, "modified", <<SampleHunk>>, FALSE),
      MkFile("README.md", Absent, "modified", <<SampleHunk>>, FALSE),
      MkFile("src/a.ts", Absent, "added", <<SampleHunk>>, FALSE)>>

\* The paths an analyzer response names: two candidates, the tier-3 file of
\* the diff and a path that is not in the diff
ResponsePaths == {"src/a.ts", "src/b.ts", "yarn.lock", "ghost.ts"}

\* The priorities (in tenths) an analyzer response gives: 0.4, 1.5 and 12
ResponsePriorities == {4, 15, 120}

\* The analyzer responses drawn; the k-th flow of a response is named by the
\* k-th letter.
Responses ==
    {[flows |-> [k \in 1..Len(fs) |->
                    [name |-> SubSeq(UpperChars, k, k), description |-> "",
                     files |-> fs[k][1], priority |-> fs[k][2]]]] :
        fs \in SeqsUpTo(SeqsUpTo(ResponsePaths, MaxFlowFiles) \X ResponsePriorities,
                        MaxFlows)}

InitFlows ==
    /\ pc = "ready"
    /\ flowInput = classifyDiff(FlowDiff)
    /\ flowResponse = None
    /\ flowResult = None
    /\ StrategyIdle /\ ParseIdle /\ ClassifyFileIdle /\ ClassifyDiffIdle /\ BudgetIdle
    /\ ExecutorIdle
    /\ PromptIdle

\* detectFlows up to the await of chat(...)
CallAnalyzer ==
    /\ pc = "ready"
    /\ pc' = "awaiting"
    /\ UNCHANGED <<executorVars, promptVars, flowVars, strategyVars, parseVars, classifyFileVars,
                   classifyDiffVars, budgetVars>>

\* detectFlows from the resolution of chat(...) to its return
ReceiveResponse ==
    /\ pc = "awaiting"
    /\ \E r \in Responses :
          /\ flowResponse' = r
          /\ flowResult' = detectFlows(flowInput, r)
    /\ pc' = "done"
    /\ UNCHANGED <<executorVars, promptVars, flowInput, strategyVars, parseVars, classifyFileVars,
                   classifyDiffVars, budgetVars>>

NextFlows == CallAnalyzer \/ ReceiveResponse

SpecFlows == InitFlows /\ [][NextFlows]_vars

\* C2: after detectFlows no path appears in the file list of more than one
\* returned flow, whatever the analyzer response lists.
C2_FlowsDisjoint ==
    pc = "done" =>
        \A i, j \in 1..Len(flowResult.flows) :
            i # j => SeqToSet(flowResult.flows[i].files)
                        \cap SeqToSet(flowResult.flows[j].files) = {}

\* Reached: the response listed src/a.ts under its first and its second flow,
\* both flows were returned, and only one of them holds src/a.ts.
C2_Witness ==
    /\ pc = "done"
    /\ Len(flowResponse.flows) = 2
    /\ "src/a.ts" \in SeqToSet(flowResponse.flows[1].files)
    /\ "src/a.ts" \in SeqToSet(flowResponse.flows[2].files)
    /\ Len(flowResult.flows) = 2
    /\ Cardinality({k \in 1..2 : "src/a.ts" \in SeqToSet(flowResult.flows[k].files)}) = 1

RECURSIVE ConcatAll(_)
ConcatAll(seqs) == IF seqs = <<>> THEN <<>> ELSE Head(seqs) \o ConcatAll(Tail(seqs))

\* Every path of the returned flows' file lists, then the uncategorized ones
AccountedPaths ==
    ConcatAll([k \in 1..Len(flowResult.flows) |-> flowResult.flows[k].files])
        \o flowResult.uncategorized

\* C3: the flows' file lists together with the uncategorized list account for
\* every candidate (tier 1 or 2) file exactly once: the lengths add up to the
\* number of candidates, none lost and none duplicated.
C3_EveryCandidateOnce ==
    pc = "done" =>
        LET candidates == RelevantFiles(flowInput)
        IN  /\ Len(AccountedPaths) = Len(candidates)
            /\ \A c \in 1..Len(candidates) :
                  Cardinality({k \in 1..Len(AccountedPaths) :
                                  AccountedPaths[k] = candidates[c].file.path}) = 1

(***************************************************************************)
(* Diff parser                                                             *)
(***************************************************************************)

\* lines[i] for a 0-based i
LineAt(lines, i) == lines[i + 1]

Digits == "0123456789"

IsDigit(c) == c \in CharsOf(Digits)

\* The number of consecutive digits of s from the 1-based position from on
RECURSIVE DigitRun(_, _)
DigitRun(s, from) ==
    IF from <= Len(s) /\ IsDigit(SubSeq(s, from, from))
    THEN 1 + DigitRun(s, from + 1)
    ELSE 0

\* parseInt(s, 10) for a string of digits
RECURSIVE ParseInt(_)
ParseInt(s) ==
    IF s = "" THEN 0
    ELSE 10 * ParseInt(SubSeq(s, 1, Len(s) - 1)) + IndexOf(Digits, SubSeq(s, Len(s), Len(s)))

\* A line terminator, which "." of a regular expression does not match
IsLineTerminator(c) == c \in {"\n", "\r"}

\* The 1-based positions of s at which the pattern p occurs
Occurrences(s, p) == {k \in 1..(Len(s) - Len(p) + 1) : SubSeq(s, k, k + Len(p) - 1) = p}

SetMax(S) == CHOOSE k \in S : \A j \in S : j <= k
SetMin(S) == CHOOSE k \in S : \A j \in S : k <= j

\* parseGitDiffLine: {path, oldPath}
parseGitDiffLine(line) ==
    LET \* line.match(/^diff --git a\/(.+) b\/(.+)$/): the first group is
        \* greedy, so the separator is the last " b/" that leaves both groups
        \* non-empty
        rest == Slice(line, 13)
        seps == {k \in Occurrences(rest, " b/") : k > 1 /\ k + 3 <= Len(rest)}
        matches == /\ StartsWith(line, "diff --git a/")
                   /\ seps # {}
                   /\ \A c \in CharsOf(rest) : ~IsLineTerminator(c)
        sep == SetMax(seps)
        matchedOldPath == SubSeq(rest, 1, sep - 1)
        matchedNewPath == Slice(rest, sep + 2)
        \* the fallback: line.slice(11).split(" b/")
        content == Slice(line, 11)
        occ == Occurrences(content, " b/")
        first == SetMin(occ)
        firstPart == IF occ = {} THEN content ELSE SubSeq(content, 1, first - 1)
        later == {k \in occ : k >= first + 3}
        hasSecond == occ # {}
        secondPart == IF later = {} THEN Slice(content, first + 2)
                      ELSE SubSeq(content, first + 3, SetMin(later) - 1)
        extractedOldPath == IF StartsWith(firstPart, "a/") THEN Slice(firstPart, 2)
                            ELSE firstPart
    IN  IF matches
        THEN [path |-> matchedNewPath,
              oldPath |-> IF matchedOldPath # matchedNewPath THEN Some(matchedOldPath)
                          ELSE Absent]
        ELSE IF firstPart # "" /\ hasSecond /\ secondPart # ""
        THEN [path |-> secondPart,
              oldPath |-> IF extractedOldPath # secondPart THEN Some(extractedOldPath)
                          ELSE Absent]
        ELSE [path |-> content, oldPath |-> Absent]

\* The leading digits of s
DigitsPrefix(s) == IF DigitRun(s, 1) = 0 THEN "" ELSE SubSeq(s, 1, DigitRun(s, 1))

NoMatch == [matched |-> FALSE]

\* headerLine.match(/^@@ -(\d+)(?:,(\d+))? \+(\d+)(?:,(\d+))? @@/), matched
\* piece by piece from the left; s is the part of the line not yet matched.
\* The result holds the four groups (an omitted count is Absent), or is NoMatch.
matchEnd(oldStartStr, oldLinesStr, newStartStr, newLinesStr, s) ==
    IF StartsWith(s, " @@")
    THEN [matched |-> TRUE, oldStartStr |-> oldStartStr, oldLinesStr |-> oldLinesStr,
          newStartStr |-> newStartStr, newLinesStr |-> newLinesStr]
    ELSE NoMatch

matchNewLines(oldStartStr, oldLinesStr, newStartStr, s) ==
    IF newStartStr = "" THEN NoMatch
    ELSE IF StartsWith(s, ",") /\ DigitRun(s, 2) > 0
    THEN matchEnd(oldStartStr, oldLinesStr, newStartStr,
                  Some(DigitsPrefix(Slice(s, 1))), Slice(s, 1 + DigitRun(s, 2)))
    ELSE matchEnd(oldStartStr, oldLinesStr, newStartStr, Absent, s)

matchNewStart(oldStartStr, oldLinesStr, s) ==
    IF StartsWith(s, " +")
    THEN matchNewLines(oldStartStr, oldLinesStr, DigitsPrefix(Slice(s, 2)),
                       Slice(s, 2 + DigitRun(s, 3)))
    ELSE NoMatch

matchOldLines(oldStartStr, s) ==
    IF oldStartStr = "" THEN NoMatch
    ELSE IF StartsWith(s, ",") /\ DigitRun(s, 2) > 0
    THEN matchNewStart(oldStartStr, Some(DigitsPrefix(Slice(s, 1))),
                       Slice(s, 1 + DigitRun(s, 2)))
    ELSE matchNewStart(oldStartStr, Absent, s)

matchHunkHeader(headerLine) ==
    IF StartsWith(headerLine, "@@ -")
    THEN matchOldLines(DigitsPrefix(Slice(headerLine, 4)),
                       Slice(headerLine, 4 + DigitRun(headerLine, 5)))
    ELSE NoMatch

\* A planted slip: an added line is given an old line number as well.
hunkLineStepAddBothNumbers(line, currentOldLine, currentNewLine) ==
    LET firstChar == IF line = "" THEN Absent ELSE Some(CharAt(line, 0))
        content == Slice(line, 1)
    IN  IF firstChar = Some("+")
        THEN [stop |-> FALSE,
              line |-> MkLine("add", content, Some(currentOldLine), Some(currentNewLine)),
              currentOldLine |-> currentOldLine, currentNewLine |-> currentNewLine + 1]
        ELSE IF firstChar = Some("-")
        THEN [stop |-> FALSE,
              line |-> MkLine("delete", content, Some(currentOldLine), Absent),
              currentOldLine |-> currentOldLine + 1, currentNewLine |-> currentNewLine]
        ELSE IF firstChar = Some(" ") \/ firstChar = Absent
        THEN [stop |-> FALSE,
              line |-> MkLine("context", content, Some(currentOldLine), Some(currentNewLine)),
              currentOldLine |-> currentOldLine + 1, currentNewLine |-> currentNewLine + 1]
        ELSE IF \/ StartsWith(line, "index ")
                \/ StartsWith(line, "--- ")
                \/ StartsWith(line, "+++ ")
                \/ StartsWith(line, "new file")
                \/ StartsWith(line, "deleted file")
        THEN [stop |-> TRUE]
        ELSE [stop |-> FALSE,
              line |-> MkLine("context", content, Some(currentOldLine), Some(currentNewLine)),
              currentOldLine |-> currentOldLine + 1, currentNewLine |-> currentNewLine + 1]

\* What one pass of the hunk loop does with a line that is neither a
\* terminator nor a no-newline marker: the DiffLine pushed and the counters
\* after it, or stop = TRUE for an out-of-place file-header line
hunkLineStep(line, currentOldLine, currentNewLine) ==
    LET firstChar == IF line = "" THEN Absent ELSE Some(CharAt(line, 0))
        content == Slice(line, 1)
    IN  IF firstChar = Some("+")
        THEN [stop |-> FALSE,
              line |-> MkLine("add", content, Absent, Some(currentNewLine)),
              currentOldLine |-> currentOldLine, currentNewLine |-> currentNewLine + 1]
        ELSE IF firstChar = Some("-")
        THEN [stop |-> FALSE,
              line |-> MkLine("delete", content, Some(currentOldLine), Absent),
              currentOldLine |-> currentOldLine + 1, currentNewLine |-> currentNewLine]
        ELSE IF firstChar = Some(" ") \/ firstChar = Absent
        THEN [stop |-> FALSE,
              line |-> MkLine("context", content, Some(currentOldLine), Some(currentNewLine)),
              currentOldLine |-> currentOldLine + 1, currentNewLine |-> currentNewLine + 1]
        ELSE IF \/ StartsWith(line, "index ")
                \/ StartsWith(line, "--- ")
                \/ StartsWith(line, "+++ ")
                \/ StartsWith(line, "new file")
                \/ StartsWith(line, "deleted file")
        THEN [stop |-> TRUE]
        ELSE [stop |-> FALSE,
              line |-> MkLine("context", content, Some(currentOldLine), Some(currentNewLine)),
              currentOldLine |-> currentOldLine + 1, currentNewLine |-> currentNewLine + 1]

\* A planted slip: the no-newline marker is not skipped and goes through the
\* line classification like any other line.
RECURSIVE hunkLoopKeepsMarker(_, _, _, _, _)
hunkLoopKeepsMarker(lines, i, currentOldLine, currentNewLine, hunkLines) ==
    IF i >= Len(lines) THEN [hunkLines |-> hunkLines, nextIndex |-> i]
    ELSE LET line == LineAt(lines, i)
         IN  IF StartsWith(line, "diff --git ") \/ StartsWith(line, "@@")
             THEN [hunkLines |-> hunkLines, nextIndex |-> i]
             ELSE IF line = "" /\ i = Len(lines) - 1
             THEN [hunkLines |-> hunkLines, nextIndex |-> i]
             ELSE LET step == hunkLineStep(line, currentOldLine, currentNewLine)
                  IN  IF step.stop
                      THEN [hunkLines |-> hunkLines, nextIndex |-> i]
                      ELSE hunkLoopKeepsMarker(lines, i + 1, step.currentOldLine,
                               step.currentNewLine, Append(hunkLines, step.line))

\* The while loop of parseHunk from index i on
RECURSIVE hunkLoop(_, _, _, _, _)
hunkLoop(lines, i, currentOldLine, currentNewLine, hunkLines) ==
    IF i >= Len(lines) THEN [hunkLines |-> hunkLines, nextIndex |-> i]
    ELSE LET line == LineAt(lines, i)
         IN  IF StartsWith(line, "diff --git ") \/ StartsWith(line, "@@")
             THEN [hunkLines |-> hunkLines, nextIndex |-> i]
             ELSE IF StartsWith(line, "\\")
             THEN hunkLoop(lines, i + 1, currentOldLine, currentNewLine, hunkLines)
             ELSE IF line = "" /\ i = Len(lines) - 1
             THEN [hunkLines |-> hunkLines, nextIndex |-> i]
             ELSE LET step == hunkLineStep(line, currentOldLine, currentNewLine)
                  IN  IF step.stop
                      THEN [hunkLines |-> hunkLines, nextIndex |-> i]
                      ELSE hunkLoop(lines, i + 1, step.currentOldLine,
                                    step.currentNewLine, Append(hunkLines, step.line))

\* The return statement of parseHunk, loop being what the while loop left
hunkResult(oldStart, oldLines, newStart, newLines, headerLine, loop) ==
    [threw |-> FALSE,
     hunk |-> MkHunk(oldStart, oldLines, newStart, newLines, headerLine, loop.hunkLines),
     nextIndex |-> loop.nextIndex]

\* parseHunk from the four parsed header numbers on
parseHunkBody(lines, startIndex, oldStart, oldLines, newStart, newLines) ==
    hunkResult(oldStart, oldLines, newStart, newLines, LineAt(lines, startIndex),
               hunkLoop(lines, startIndex + 1, oldStart, newStart, <<>>))

\* parseHunk from the result of the header match on
parseHunkMatched(lines, startIndex, match) ==
    IF ~match.matched THEN [threw |-> TRUE]
    ELSE parseHunkBody(lines, startIndex,
             ParseInt(match.oldStartStr),
             IF match.oldLinesStr # Absent THEN ParseInt(match.oldLinesStr[1]) ELSE 1,
             ParseInt(match.newStartStr),
             IF match.newLinesStr # Absent THEN ParseInt(match.newLinesStr[1]) ELSE 1)

\* parseHunk: {hunk, nextIndex}, or threw = TRUE for an invalid hunk header
parseHunk(lines, startIndex) ==
    parseHunkMatched(lines, startIndex, matchHunkHeader(LineAt(lines, startIndex)))

\* The index of the first "diff --git " line at or after i, else lines.length
\* A planted slip: the binary content is skipped up to the end of the text.
skipBinaryToEnd(lines, i) == Len(lines)

RECURSIVE skipBinary(_, _)
skipBinary(lines, i) ==
    IF i >= Len(lines) THEN i
    ELSE IF StartsWith(LineAt(lines, i), "diff --git ") THEN i
    ELSE skipBinary(lines, i + 1)

FileState(oldPath, status, isBinary, hunks, i, threw) ==
    [oldPath |-> oldPath, status |-> status, isBinary |-> isBinary, hunks |-> hunks,
     i |-> i, threw |-> threw]

RECURSIVE fileLoop(_, _)

\* A planted slip: a hunk whose header does not parse is skipped and the
\* loop goes on with the next line.
fileLoopHunkSkipsMalformed(lines, st, h) ==
    IF h.threw THEN fileLoop(lines, [st EXCEPT !.i = st.i + 1])
    ELSE fileLoop(lines, [st EXCEPT !.hunks = Append(@, h.hunk), !.i = h.nextIndex])

\* The hunk branch of the parseFile loop, h being what parseHunk returned
fileLoopHunk(lines, st, h) ==
    IF h.threw THEN [st EXCEPT !.threw = TRUE]
    ELSE fileLoop(lines, [st EXCEPT !.hunks = Append(@, h.hunk), !.i = h.nextIndex])

\* One pass of the parseFile loop over the line at index i
fileLoopLine(lines, st, line, i) ==
    IF line = "" \/ StartsWith(line, "diff --git ") THEN st
    ELSE IF StartsWith(line, "new file mode")
    THEN fileLoop(lines, [st EXCEPT !.status = "added", !.i = i + 1])
    ELSE IF StartsWith(line, "deleted file mode")
    THEN fileLoop(lines, [st EXCEPT !.status = "deleted", !.i = i + 1])
    ELSE IF StartsWith(line, "rename from ")
    THEN fileLoop(lines, [st EXCEPT !.oldPath = Some(Slice(line, 12)),
                                    !.status = "renamed", !.i = i + 1])
    ELSE IF StartsWith(line, "rename to ")
    THEN fileLoop(lines, [st EXCEPT !.i = i + 1])
    ELSE IF StartsWith(line, "similarity index ")
    THEN fileLoop(lines, [st EXCEPT !.i = i + 1])
    ELSE IF StartsWith(line, "Binary files ") \/ line = "GIT binary patch"
    THEN [st EXCEPT !.isBinary = TRUE, !.i = skipBinary(lines, i + 1)]
    ELSE IF StartsWith(line, "@@")
    THEN fileLoopHunk(lines, st, parseHunk(lines, i))
    ELSE fileLoop(lines, [st EXCEPT !.i = i + 1])

\* The while loop of parseFile from index st.i on
fileLoop(lines, st) ==
    IF st.i >= Len(lines) THEN st
    ELSE fileLoopLine(lines, st, LineAt(lines, st.i), st.i)

\* The end of parseFile: renamed tells whether the rename detected from the
\* "diff --git" line applies
fileResult(git, st, renamed) ==
    IF st.threw THEN [threw |-> TRUE]
    ELSE [threw |-> FALSE,
          file |-> MkFile(git.path,
                          IF renamed THEN git.oldPath ELSE st.oldPath,
                          IF renamed /\ st.status = "modified" THEN "renamed" ELSE st.status,
                          st.hunks, st.isBinary),
          nextIndex |-> st.i]

\* parseFile after its while loop: !oldPath && gitOldPath && gitOldPath !== path
parseFileEnd(git, st) ==
    fileResult(git, st,
               /\ (st.oldPath = Absent \/ st.oldPath = Some(""))
               /\ git.oldPath # Absent /\ git.oldPath # Some("")
               /\ git.oldPath # Some(git.path))

\* parseFile: {file, nextIndex}, or threw = TRUE
parseFile(lines, startIndex) ==
    parseFileEnd(parseGitDiffLine(LineAt(lines, startIndex)),
                 fileLoop(lines, FileState(Absent, "modified", FALSE, <<>>,
                                           startIndex + 1, FALSE)))

RECURSIVE diffLoop(_, _, _)

\* The file branch of the parseDiff loop, f being what parseFile returned
diffLoopFile(lines, files, f) ==
    IF f.threw THEN [threw |-> TRUE, files |-> <<>>]
    ELSE diffLoop(lines, f.nextIndex, Append(files, f.file))

\* The while loop of parseDiff from index i on
diffLoop(lines, i, files) ==
    IF i >= Len(lines) THEN [threw |-> FALSE, files |-> files]
    ELSE IF StartsWith(LineAt(lines, i), "diff --git ")
    THEN diffLoopFile(lines, files, parseFile(lines, i))
    ELSE diffLoop(lines, i + 1, files)

\* A character that String.prototype.trim removes
IsWhitespace(c) == c \in {" ", "\t", "\n", "\r"}

\* parseDiff of the text whose split("\n") is lines: {files}, or threw = TRUE
parseDiff(lines) ==
    IF \A k \in 1..Len(lines) : \A c \in CharsOf(lines[k]) : IsWhitespace(c)
    THEN [threw |-> FALSE, files |-> <<>>]
    ELSE diffLoop(lines, 0, <<>>)

\* Most lines drawn after the first "diff --git" line of a text, and most
\* lines drawn for the body of a hunk
MaxTail == 3
MaxBody == 4

\* The forms of the "diff --git" line: equal paths, different paths, no a/
\* prefix (only the split on " b/" applies), no " b/" at all
DiffHeaderLines ==
    {"diff --git a/x b/x", "diff --git a/x b/y", "diff --git x b/y", "diff --git x"}

NoNewlineMarker == "\\ No newline at end of file"

\* The lines drawn after the first line of a text
FileLines ==
    {"diff --git a/x b/x", "new file mode 100644",
     "deleted file mode 100644", "rename from x", "rename to y",
     "index 1a2b..3c4d 100644", "--- a/x",
     "Binary files a/x and b/y differ", "GIT binary patch", "@@ -1,2 +3 @@ fn",
     "@@ bad @@", "+a", ""}

HunkHeaderLines == {"@@ -1,2 +3 @@ fn", "@@ -0,0 +1,3 @@", "@@ -10 +20,1 @@"}

\* The lines drawn for the body of a hunk
BodyLines ==
    {"+a", "-b", " c", "", NoNewlineMarker, "zz", "index 1a2b..3c4d 100644", "--- a/x",
     "+++ b/x"}

\* The texts drawn, as rawDiff.split("\n"): the empty text, a blank text, a
\* "diff --git" line followed by any lines, and one file with one hunk
\* followed by any body lines
ParseInputs ==
    {<<"">>, <<"  ", "", " ">>}
    \cup {<<d>> \o tail : d \in DiffHeaderLines, tail \in SeqsUpTo(FileLines, MaxTail)}
    \cup {<<"diff --git a/x b/x", h>> \o hunkBody :
             h \in HunkHeaderLines, hunkBody \in SeqsUpTo(BodyLines, MaxBody)}

InitParse ==
    /\ pc = "ready"
    /\ rawLines \in ParseInputs
    /\ parsed = None
    /\ StrategyIdle /\ ClassifyFileIdle /\ ClassifyDiffIdle /\ BudgetIdle /\ FlowIdle
    /\ ExecutorIdle
    /\ PromptIdle

ParseDiff ==
    /\ pc = "ready"
    /\ parsed' = parseDiff(rawLines)
    /\ pc' = "done"
    /\ UNCHANGED <<executorVars, promptVars, rawLines, strategyVars, classifyFileVars, classifyDiffVars,
                   budgetVars, flowVars>>

NextParse == ParseDiff

SpecParse == InitParse /\ [][NextParse]_vars

\* parseDiff returned a ParsedDiff
Parsed == pc = "done" /\ ~parsed.threw

\* Every hunk of the ParsedDiff returned
ParsedHunks ==
    UNION {SeqToSet(parsed.files[f].hunks) : f \in 1..Len(parsed.files)}

\* Every DiffLine of the ParsedDiff returned
ParsedLines == UNION {SeqToSet(h.lines) : h \in ParsedHunks}

\* The old (new) line numbers of a hunk's lines that carry one, in order
OldNumbers(h) ==
    LET Has(l) == l.type \in {"context", "delete"}
        ls == SelectSeq(h.lines, Has)
    IN  [k \in 1..Len(ls) |-> ls[k].oldLineNumber]

NewNumbers(h) ==
    LET Has(l) == l.type \in {"context", "add"}
        ls == SelectSeq(h.lines, Has)
    IN  [k \in 1..Len(ls) |-> ls[k].newLineNumber]

\* C4: in every hunk the old line numbers of the context and delete lines are
\* oldStart, oldStart+1, ... and the new line numbers of the context and add
\* lines are newStart, newStart+1, ...; a no-newline marker line produces no
\* DiffLine and advances neither counter.
C4_LineNumbersConsecutive ==
    Parsed =>
        /\ \A h \in ParsedHunks :
              /\ \A k \in 1..Len(OldNumbers(h)) : OldNumbers(h)[k] = Some(h.oldStart + k - 1)
              /\ \A k \in 1..Len(NewNumbers(h)) : NewNumbers(h)[k] = Some(h.newStart + k - 1)
        /\ \A l \in ParsedLines : l.content # Slice(NoNewlineMarker, 1)

\* Reached: a hunk whose body is a delete line, the no-newline marker and two
\* more lines, returned with three DiffLines.
C4_Witness ==
    /\ Parsed
    /\ Len(rawLines) = 6
    /\ rawLines[3] = "-b"
    /\ rawLines[4] = NoNewlineMarker
    /\ rawLines[5] \in {"-b", " c"}
    /\ rawLines[6] = "+a"
    /\ Len(parsed.files) = 1
    /\ Len(parsed.files[1].hunks) = 1
    /\ Len(parsed.files[1].hunks[1].lines) = 3

\* C5: every DiffLine has oldLineNumber present iff its type is context or
\* delete, and newLineNumber present iff its type is context or add.
C5_LineNumberPresence ==
    Parsed =>
        \A l \in ParsedLines :
            /\ (l.oldLineNumber # Absent) <=> (l.type \in {"context", "delete"})
            /\ (l.newLineNumber # Absent) <=> (l.type \in {"context", "add"})

\* Reached: a hunk returned with an add line, a delete line and a context
\* line.
C5_Witness ==
    /\ Parsed
    /\ \E h \in ParsedHunks :
          {h.lines[k].type : k \in 1..Len(h.lines)} = {"add", "delete", "context"}

\* C6: for every DiffFile, status is 'renamed' iff oldPath is set and differs
\* from path.
C6_RenamedIffOldPath ==
    Parsed =>
        \A f \in 1..Len(parsed.files) :
            (parsed.files[f].status = "renamed")
                <=> (/\ parsed.files[f].oldPath # Absent
                     /\ parsed.files[f].oldPath # Some(parsed.files[f].path))

\* C7: for every DiffFile, isBinary = true implies that the hunk list is
\* empty.
C7_BinaryHasNoHunks ==
    Parsed =>
        \A f \in 1..Len(parsed.files) :
            parsed.files[f].isBinary => parsed.files[f].hunks = <<>>


\* A line that begins with "@@" and does not match the hunk-header pattern
IsMalformedHunkHeader(line) ==
    StartsWith(line, "@@") /\ ~matchHunkHeader(line).matched

IsBinaryMarker(line) == StartsWith(line, "Binary files ") \/ line = "GIT binary patch"

Severities == {"critical", "high", "medium", "low"}

\* const severityOrder = { critical: 0, high: 1, medium: 2, low: 3 }
severityOrder(severity) ==
    CASE severity = "critical" -> 0
      [] severity = "high" -> 1
      [] severity = "medium" -> 2
      [] severity = "low" -> 3

\* A Risk; its optional fields file and mitigation are left out, no step of
\* the merge reads them.
MkRisk(severity, category, description, evidence) ==
    [severity |-> severity, category |-> category, description |-> description,
     evidence |-> evidence]

\* `${r.category}:${r.description.slice(0, 50)}`
riskKey(r) ==
    r.category \o ":" \o SubSeq(r.description, 1, Min(50, Len(r.description)))

\* allRisks.filter(...) with the seen set, from element k on
RECURSIVE dedupeRisks(_, _, _, _)
dedupeRisks(allRisks, k, seen, uniqueRisks) ==
    IF k > Len(allRisks) THEN uniqueRisks
    ELSE IF riskKey(allRisks[k]) \in seen
    THEN dedupeRisks(allRisks, k + 1, seen, uniqueRisks)
    ELSE dedupeRisks(allRisks, k + 1, seen \cup {riskKey(allRisks[k])},
                     Append(uniqueRisks, allRisks[k]))

\* The comparator passed to uniqueRisks.sort
riskSeverityCompare(a, b) == severityOrder(a.severity) - severityOrder(b.severity)

\* uniqueRisks.sort(cmp), a stable sort
sortRisks(seq) ==
    LET n == Len(seq)
        pos(i) == 1 + Cardinality({j \in 1..n : riskSeverityCompare(seq[j], seq[i]) < 0})
                    + Cardinality({j \in 1..(i - 1) : riskSeverityCompare(seq[j], seq[i]) = 0})
    IN  [k \in 1..n |-> seq[CHOOSE i \in 1..n : pos(i) = k]]

\* The deduplicated and sorted risk list of both merges
uniqueSortedRisks(allRisks) == sortRisks(dedupeRisks(allRisks, 1, {}, <<>>))

\* String(n) of a count n >= 0
RECURSIVE NumberToString(_)
NumberToString(n) ==
    IF n < 10 THEN SubSeq(Digits, n + 1, n + 1)
    ELSE NumberToString(n \div 10) \o SubSeq(Digits, (n % 10) + 1, (n % 10) + 1)

\* The number of risks of a list with a given severity
severityCount(risks, severity) ==
    Cardinality({k \in 1..Len(risks) : risks[k].severity = severity})

\* A planted slip: the high-severity risks are looked at before the critical
\* ones.
mergedSummaryHighFirst(uniqueRisks, deepDiveSummary) ==
    IF Len(uniqueRisks) = 0
    THEN "No significant risks identified in detailed review."
    ELSE IF severityCount(uniqueRisks, "high") > 0
    THEN NumberToString(severityCount(uniqueRisks, "high"))
             \o " high-severity risk(s) found. " \o deepDiveSummary
    ELSE IF severityCount(uniqueRisks, "critical") > 0
    THEN NumberToString(severityCount(uniqueRisks, "critical"))
             \o " critical risk(s) found. " \o deepDiveSummary
    ELSE deepDiveSummary

\* The merged summary of mergeResults
mergedSummary(uniqueRisks, deepDiveSummary) ==
    IF Len(uniqueRisks) = 0
    THEN "No significant risks identified in detailed review."
    ELSE IF severityCount(uniqueRisks, "critical") > 0
    THEN NumberToString(severityCount(uniqueRisks, "critical"))
             \o " critical risk(s) found. " \o deepDiveSummary
    ELSE IF severityCount(uniqueRisks, "high") > 0
    THEN NumberToString(severityCount(uniqueRisks, "high"))
             \o " high-severity risk(s) found. " \o deepDiveSummary
    ELSE deepDiveSummary

\* A planted slip: the overall risk is taken over from the deep-dive
\* assessment.
mergedAssessmentKeepsDeepDiveRisk(uniqueRisks, dd) ==
    [overallRisk |-> dd.overallRisk,
     summary |-> mergedSummary(uniqueRisks, dd.summary),
     risks |-> uniqueRisks,
     confidence |-> dd.confidence]

\* The RiskAssessment built by mergeResults from the merged risk list
mergedAssessment(uniqueRisks, dd) ==
    [overallRisk |-> IF Len(uniqueRisks) > 0 THEN uniqueRisks[1].severity ELSE "low",
     summary |-> mergedSummary(uniqueRisks, dd.summary),
     risks |-> uniqueRisks,
     confidence |-> dd.confidence]

\* The DerivedIntent built by mergeResults; a || b of two strings is b when a
\* is empty
mergedIntent(ov) ==
    [summary |-> IF ov.overviewIntent.summary # "" THEN ov.overviewIntent.summary
                 ELSE ov.summary,
     purpose |-> IF ov.overviewIntent.purpose # "" THEN ov.overviewIntent.purpose
                 ELSE ov.summary,
     scope |-> IF ov.overviewIntent.scope # "" THEN ov.overviewIntent.scope ELSE "mixed",
     affectedAreas |-> ov.overviewIntent.affectedAreas,
     suggestedReviewOrder |-> IF Len(ov.flaggedFiles) > 0 THEN Some(ov.flaggedFiles)
                              ELSE Absent]

\* mergeResults(overview, deepDive)
mergeResults(ov, dd) ==
    [intent |-> mergedIntent(ov),
     risks |-> mergedAssessment(uniqueSortedRisks(ov.initialRisks \o dd.risks), dd)]


(***************************************************************************)
(* Two-pass executor (two-pass.ts runTwoPassAnalysis)                      *)
(***************************************************************************)

\* The OverviewResult runOverviewPass builds from the analyzer's response
overviewResult(response) ==
    [summary |-> response.summary,
     flaggedFiles |-> [k \in 1..Len(response.flaggedFiles) |-> response.flaggedFiles[k].path],
     initialRisks |-> response.initialRisks,
     overviewIntent |-> [summary |-> response.summary, purpose |-> response.purpose,
                         scope |-> response.scope,
                         affectedAreas |-> response.affectedAreas]]

\* The assessment runDeepDivePass returns without an analyzer call
NoFlaggedAssessment ==
    [overallRisk |-> "low",
     summary |-> "No files required detailed review - change appears safe.",
     risks |-> <<>>,
     confidence |-> "high"]

\* A planted slip: the deep-dive call is issued whatever the overview flagged.
deepDiveStartAlwaysCalls(flaggedFiles) == [call |-> TRUE]

\* runDeepDivePass up to its first await: the analyzer call is issued, or the
\* canned assessment is returned when no file was flagged
deepDiveStart(flaggedFiles) ==
    IF Len(flaggedFiles) = 0
    THEN [call |-> FALSE, assessment |-> NoFlaggedAssessment]
    ELSE [call |-> TRUE]

\* The TwoPassAnalysisResult returned
twoPassResult(cls, ov, dd) ==
    [rejected |-> FALSE,
     intent |-> mergeResults(ov, dd).intent,
     risks |-> mergeResults(ov, dd).risks,
     metadata |-> [strategy |-> "two-pass",
                   overviewFileCount |-> Len(RelevantFiles(cls)),
                   flaggedFileCount |-> Len(ov.flaggedFiles),
                   deepDiveFileCount |-> Len(ov.flaggedFiles)]]

\* The state of one analyzer call: not issued, in flight, resolved, or
\* rejected with an error
CallIdle == [status |-> "idle", error |-> Absent]
CallPending == [status |-> "pending", error |-> Absent]
CallReturned == [status |-> "returned", error |-> Absent]
CallRejected(error) == [status |-> "rejected", error |-> Some(error)]

\* The analyzer calls that an executor issues once in a run, none issued yet:
\* those of runOverviewPass, runDeepDivePass, detectFlows and
\* synthesizeFlowResults
NoCalls ==
    [overview |-> CallIdle, deepDive |-> CallIdle, detect |-> CallIdle,
     synthesis |-> CallIdle]

\* The messages of the errors an analyzer call rejects with
FailureMessages == {"Network error", "Validation failed for output"}

\* The error the analyzer call named call rejects with; call stands for the
\* identity of the error object
ChatError(call, message) == [call |-> call, message |-> message, cause |-> Absent]

\* What an executor's promise settles to when an error is thrown out of it
Rejection(error) == [rejected |-> TRUE, error |-> error]

\* Most risks in an overview response and in a deep-dive response
MaxOverviewRisks == 2
MaxDeepDiveRisks == 2

\* Fifty characters, the part of a description the key keeps
LongPrefix == "Removed null check could cause a crash when email "

\* The risks drawn: two with one key that differ after the fiftieth
\* character, two whose keys are the same text split at different colons, two
\* that differ in the evidence only, and one that shares a description
\* prefix with another category.
RiskUniverse ==
    {MkRisk("low", "security", LongPrefix \o "is undefined", "e1"),
     MkRisk("critical", "security", LongPrefix \o "is null", "e2"),
     MkRisk("high", "perf", LongPrefix \o "is null", "e2"),
     MkRisk("high", "a", "b:c", "e1"),
     MkRisk("medium", "a:b", "c", "e1"),
     MkRisk("medium", "perf", "slow loop", "e1"),
     MkRisk("low", "perf", "slow loop", "e2")}

FlaggedLists ==
    {<<>>, <<[path |-> "src/a.ts", reason |-> "r"]>>,
     <<[path |-> "src/b.ts", reason |-> "r"], [path |-> "src/a.ts", reason |-> "r"]>>}

OverviewResponses ==
    {[summary |-> "Adds login", purpose |-> p, scope |-> "feature",
      affectedAreas |-> <<"auth">>, flaggedFiles |-> fl, initialRisks |-> rs] :
        p \in {"", "Let users log in"}, fl \in FlaggedLists,
        rs \in SeqsUpTo(RiskUniverse, MaxOverviewRisks)}

DeepDiveResponses ==
    {[overallRisk |-> o, summary |-> "Deep-dive summary", risks |-> rs,
      confidence |-> "medium"] :
        o \in {"low", "critical"}, rs \in SeqsUpTo(RiskUniverse, MaxDeepDiveRisks)}

InitTwoPass ==
    /\ pc = "twoPassReady"
    /\ runClassified = classifyDiff(FlowDiff)
    /\ calls = NoCalls
    /\ callCount = 0
    /\ overview = None
    /\ deepDive = None
    /\ runResult = None
    /\ FlowRunIdle
    /\ PromptIdle
    /\ StrategyIdle /\ ParseIdle /\ ClassifyFileIdle /\ ClassifyDiffIdle /\ BudgetIdle
    /\ FlowIdle

\* The variables no executor uses
idleVars ==
    <<strategyVars, parseVars, classifyFileVars, classifyDiffVars, budgetVars, promptVars>>

otherVars == <<idleVars, flowVars>>

\* runTwoPassAnalysis up to the await of runOverviewPass, which is suspended
\* in its analyzer call
StartOverview ==
    /\ pc = "twoPassReady"
    /\ calls' = [calls EXCEPT !.overview = CallPending]
    /\ callCount' = callCount + 1
    /\ pc' = "awaitingOverview"
    /\ UNCHANGED <<runClassified, overview, deepDive, runResult, flowRunVars, otherVars>>

\* The overview call resolves: runOverviewPass returns, runDeepDivePass is
\* called and runs up to its await or its early return
OverviewReturns ==
    /\ pc = "awaitingOverview"
    /\ \E response \in OverviewResponses :
          /\ overview' = overviewResult(response)
          /\ IF deepDiveStart(overviewResult(response).flaggedFiles).call
             THEN /\ calls' = [calls EXCEPT !.overview = CallReturned, !.deepDive = CallPending]
                  /\ callCount' = callCount + 1
                  /\ deepDive' = deepDive
             ELSE /\ calls' = [calls EXCEPT !.overview = CallReturned]
                  /\ callCount' = callCount
                  /\ deepDive' = deepDiveStart(overviewResult(response).flaggedFiles).assessment
    /\ pc' = "awaitingDeepDive"
    /\ UNCHANGED <<runClassified, runResult, flowRunVars, otherVars>>

\* The overview call rejects: the await throws out of runTwoPassAnalysis
OverviewRejects ==
    /\ pc = "awaitingOverview"
    /\ \E message \in FailureMessages :
          /\ calls' = [calls EXCEPT !.overview = CallRejected(ChatError("overview", message))]
          /\ runResult' = Rejection(ChatError("overview", message))
    /\ pc' = "rejected"
    /\ UNCHANGED <<runClassified, callCount, overview, deepDive, flowRunVars, otherVars>>

\* The deep-dive call resolves: the results are merged and returned
DeepDiveReturns ==
    /\ pc = "awaitingDeepDive"
    /\ calls.deepDive = CallPending
    /\ \E response \in DeepDiveResponses :
          /\ deepDive' = response
          /\ runResult' = twoPassResult(runClassified, overview, response)
    /\ calls' = [calls EXCEPT !.deepDive = CallReturned]
    /\ pc' = "done"
    /\ UNCHANGED <<runClassified, callCount, overview, flowRunVars, otherVars>>

\* runDeepDivePass had returned without a call: the await resumes with the
\* canned assessment, the results are merged and returned
DeepDiveSkipped ==
    /\ pc = "awaitingDeepDive"
    /\ calls.deepDive = CallIdle
    /\ runResult' = twoPassResult(runClassified, overview, deepDive)
    /\ pc' = "done"
    /\ UNCHANGED <<runClassified, calls, callCount, overview, deepDive, flowRunVars,
                   otherVars>>

\* The deep-dive call rejects: the await throws out of runTwoPassAnalysis
DeepDiveRejects ==
    /\ pc = "awaitingDeepDive"
    /\ calls.deepDive = CallPending
    /\ \E message \in FailureMessages :
          /\ calls' = [calls EXCEPT !.deepDive = CallRejected(ChatError("deepDive", message))]
          /\ runResult' = Rejection(ChatError("deepDive", message))
    /\ pc' = "rejected"
    /\ UNCHANGED <<runClassified, callCount, overview, deepDive, flowRunVars, otherVars>>

NextTwoPass ==
    \/ StartOverview
    \/ OverviewReturns
    \/ OverviewRejects
    \/ DeepDiveReturns
    \/ DeepDiveSkipped
    \/ DeepDiveRejects

SpecTwoPass == InitTwoPass /\ [][NextTwoPass]_vars

\* C14: the deep-dive call is issued only after the overview call has
\* returned, and never when the overview flagged no file: such a run ends
\* after exactly one analyzer call with a deep-dive assessment of overall
\* risk "low" and no risks.
C14_DeepDiveAfterOverview ==
    /\ (pc \in {"twoPassReady", "awaitingOverview"}) => calls.deepDive = CallIdle
    /\ (calls.deepDive # CallIdle) =>
          calls.overview = CallReturned /\ Len(overview.flaggedFiles) > 0
    /\ (pc = "done" /\ Len(overview.flaggedFiles) = 0) =>
          /\ callCount = 1
          /\ calls.deepDive = CallIdle
          /\ deepDive.overallRisk = "low"
          /\ deepDive.risks = <<>>

\* Reached: a run that ended after an overview that flagged no file and
\* reported a risk.
C14_Witness ==
    /\ pc = "done"
    /\ Len(overview.flaggedFiles) = 0
    /\ Len(overview.initialRisks) > 0
    /\ callCount = 1


\* The risks mergeResults was given, overview risks first
MergeInputRisks == overview.initialRisks \o deepDive.risks

\* The risks of the assessment the run returned
MergedRisks == runResult.risks.risks

\* C15: the risks mergeResults returns are ordered from critical down to low,
\* and overallRisk is the severity of the first of them, the highest present,
\* or "low" when there is none, whatever overallRisk the deep-dive reported.
C15_OverallRiskIsHighest ==
    pc = "done" =>
        /\ \A i, j \in 1..Len(MergedRisks) :
              i < j => severityOrder(MergedRisks[i].severity)
                          <= severityOrder(MergedRisks[j].severity)
        /\ IF Len(MergedRisks) = 0
           THEN runResult.risks.overallRisk = "low"
           ELSE /\ runResult.risks.overallRisk = MergedRisks[1].severity
                /\ \A k \in 1..Len(MergedRisks) :
                      severityOrder(runResult.risks.overallRisk)
                          <= severityOrder(MergedRisks[k].severity)

\* Reached: the deep-dive reported "critical", the merged risks arrived in
\* increasing severity and none of them is critical.
C15_Witness ==
    /\ pc = "done"
    /\ deepDive.overallRisk = "critical"
    /\ Len(MergedRisks) >= 2
    /\ severityOrder(MergeInputRisks[1].severity) > severityOrder(MergeInputRisks[2].severity)
    /\ runResult.risks.overallRisk = "high"

\* The pair the risks are to be deduplicated by
RiskPair(r) == <<r.category, SubSeq(r.description, 1, Min(50, Len(r.description)))>>

\* The first risk of the input with the pair of r
FirstWithPair(r) ==
    MergeInputRisks[CHOOSE k \in 1..Len(MergeInputRisks) :
                       /\ RiskPair(MergeInputRisks[k]) = RiskPair(r)
                       /\ \A j \in 1..(k - 1) : RiskPair(MergeInputRisks[j]) # RiskPair(r)]

\* C16: the merged risk list holds exactly one risk for each distinct pair
\* (category, first 50 characters of the description) of the input risks, and
\* that risk is the first of the input with the pair.
C16_OnePerPair ==
    pc = "done" =>
        /\ \A i, j \in 1..Len(MergedRisks) :
              i # j => RiskPair(MergedRisks[i]) # RiskPair(MergedRisks[j])
        /\ \A k \in 1..Len(MergeInputRisks) :
              \E i \in 1..Len(MergedRisks) :
                 RiskPair(MergedRisks[i]) = RiskPair(MergeInputRisks[k])
        /\ \A i \in 1..Len(MergedRisks) : MergedRisks[i] = FirstWithPair(MergedRisks[i])


(***************************************************************************)
(* Flow-based executor (flow-analysis.ts runFlowBasedAnalysis)             *)
(***************************************************************************)

\* const MAX_CONCURRENT_FLOWS = 3
MAX_CONCURRENT_FLOWS == 3

\* A planted slip: the files of the diff are not filtered.
filterDiffForFlowKeepsAll(diffFiles, flow) == diffFiles

\* filterDiffForFlow(diff, flow).files
filterDiffForFlow(diffFiles, flow) ==
    LET InFlow(f) == f.path \in SeqToSet(flow.files) IN SelectSeq(diffFiles, InFlow)

\* getFilesForFlow(flow, classified), which filterClassifiedForFlow returns
getFilesForFlow(flow, cls) ==
    LET InFlow(cf) == cf.file.path \in SeqToSet(flow.files) IN SelectSeq(cls, InFlow)

\* The catch block of deriveIntent and of assessRisks: a validation error is
\* replaced by a new error that carries it as cause, any other error is
\* rethrown
enhanceError(error, flowDiffFiles, flowClassified) ==
    IF Includes(error.message, "Validation failed")
    THEN [message |-> error.message
                        \o "\n\nThis usually means the LLM response was missing required fields. "
                        \o "Check that the diff wasn't too large ("
                        \o NumberToString(Len(flowDiffFiles)) \o " files, "
                        \o NumberToString(Len(RelevantFiles(flowClassified)))
                        \o " analyzed).",
          cause |-> Some(error)]
    ELSE error

\* The error analyzeFlow rejects with when a call of the flow rejected with
\* error
flowError(error, diffFiles, cls, flow) ==
    enhanceError(error, filterDiffForFlow(diffFiles, flow), getFilesForFlow(flow, cls))

\* The single flow runFlowBasedAnalysis falls back to
FallbackFlow(cls) ==
    [name |-> "All Changes", description |-> "All changes in this diff",
     files |-> [k \in 1..Len(RelevantFiles(cls)) |-> RelevantFiles(cls)[k].file.path],
     priority |-> 1]

\* A planted slip: the fallback flow takes every path of the classified list.
withFallbackAllTiers(fd, cls) ==
    IF Len(fd.flows) = 0
    THEN [flows |-> <<[name |-> "All Changes", description |-> "All changes in this diff",
                       files |-> [k \in 1..Len(cls) |-> cls[k].file.path],
                       priority |-> 1]>>,
          uncategorized |-> <<>>]
    ELSE fd

\* flowDetection after the "no flows detected" edge case was handled
withFallback(fd, cls) ==
    IF Len(fd.flows) = 0
    THEN [flows |-> <<FallbackFlow(cls)>>, uncategorized |-> <<>>]
    ELSE fd

\* The 1-based positions of flows.slice(i, i + MAX_CONCURRENT_FLOWS) among n
\* flows
batchOf(i, n) == (i + 1)..Min(i + MAX_CONCURRENT_FLOWS, n)

\* The calls of one flow: the two analyzer calls of analyzeFlow and what they
\* resolved to
FlowCallsIdle ==
    [intent |-> CallIdle, risk |-> CallIdle, intentResult |-> Absent, riskResult |-> Absent]

\* A planted slip: every flow is started at once, without batches.
startBatchAll(fc, i) ==
    [k \in 1..Len(fc) |->
        IF k > i THEN [fc[k] EXCEPT !.intent = CallPending, !.risk = CallPending]
        ELSE fc[k]]

\* batch.map(...): analyzeFlow is called for each flow of the batch and runs
\* up to its Promise.all, with both analyzer calls of the flow issued
startBatch(fc, i) ==
    [k \in 1..Len(fc) |->
        IF k \in batchOf(i, Len(fc))
        THEN [fc[k] EXCEPT !.intent = CallPending, !.risk = CallPending]
        ELSE fc[k]]

\* The analyzer calls startBatch issues
batchCallCount(i, n) == 2 * Cardinality(batchOf(i, n))

\* Promise.all of analyzeFlow has resolved for the flow
flowResolved(fck) == fck.intent = CallReturned /\ fck.risk = CallReturned

\* Promise.all of the batch has resolved
batchResolved(fc, i) == \A k \in batchOf(i, Len(fc)) : flowResolved(fc[k])

\* The FlowAnalysisResult of analyzeFlow
flowAnalysisResult(flow, fck) ==
    [flow |-> flow, intent |-> fck.intentResult[1], risks |-> fck.riskResult[1]]

\* A planted slip: the results of a batch are pushed last flow first.
batchResultsReversed(flows, fc, i) ==
    [j \in 1..Cardinality(batchOf(i, Len(fc))) |->
        flowAnalysisResult(flows[i + Cardinality(batchOf(i, Len(fc))) + 1 - j],
                           fc[i + Cardinality(batchOf(i, Len(fc))) + 1 - j])]

\* batchResults, in the order of the batch
batchResults(flows, fc, i) ==
    [j \in 1..Cardinality(batchOf(i, Len(fc))) |-> flowAnalysisResult(flows[i + j], fc[i + j])]

\* flowResults.flatMap((fr) => fr.risks.risks)
RECURSIVE flatMapRisks(_)
flatMapRisks(results) ==
    IF results = <<>> THEN <<>>
    ELSE Head(results).risks.risks \o flatMapRisks(Tail(results))

\* What synthesizeFlowResults returns for the analyzer's response
synthesizeFlowResults(results, response) ==
    [overallIntent |-> [summary |-> response.summary, purpose |-> response.purpose,
                        scope |-> response.scope,
                        affectedAreas |-> response.affectedAreas,
                        suggestedReviewOrder |-> response.suggestedReviewOrder],
     overallRisks |-> [overallRisk |-> response.overallRisk,
                       summary |-> response.riskSummary,
                       risks |-> uniqueSortedRisks(flatMapRisks(results)),
                       confidence |-> response.confidence]]

\* The metadata of the FlowBasedAnalysisResult
flowRunMetadata(cls, fd) ==
    [strategy |-> "flow-based",
     totalFileCount |-> Len(RelevantFiles(cls)),
     flowCount |-> Len(fd.flows),
     uncategorizedCount |-> Len(fd.uncategorized),
     flowFileCounts |-> [k \in 1..Len(fd.flows) |->
                            [name |-> fd.flows[k].name,
                             fileCount |-> Len(fd.flows[k].files)]]]

\* The FlowBasedAnalysisResult returned
flowRunResult(cls, fd, results, response) ==
    [rejected |-> FALSE,
     flows |-> results,
     synthesis |-> synthesizeFlowResults(results, response),
     metadata |-> flowRunMetadata(cls, fd)]


\* Most flows in a detection response of a flow-based run
MaxRunFlows == 4

\* The diff of a flow-based run: a tier-3 file, MaxRunFlows source files
\* src/a.ts, src/b.ts, ... and a tier-2 file
RunDiff ==
    <<MkFile("yarn.lock", Absent, "modified", <<SampleHunk>>, FALSE)>>
    \o [k \in 1..MaxRunFlows |->
           MkFile("src/" \o SubSeq(LowerChars, k, k) \o ".ts", Absent, "modified",
                  <<SampleHunk>>, FALSE)]
    \o <<MkFile("README.md", Absent, "modified", <<SampleHunk>>, FALSE)>>

\* A detection response with n flows: the k-th flow holds the k-th source
\* file, the first flow the tier-2 file as well; the priorities (in tenths)
\* decrease from n to 1, so that sorting reverses the flows
DescendingFlows(n) ==
    [flows |-> [k \in 1..n |->
                   [name |-> SubSeq(UpperChars, k, k), description |-> "",
                    files |-> IF k = 1 THEN <<"src/a.ts", "README.md">>
                              ELSE <<"src/" \o SubSeq(LowerChars, k, k) \o ".ts">>,
                    priority |-> (n - k + 1) * 10]]]

\* A detection response with MaxRunFlows flows whose priorities (in tenths)
\* are out of range, fractional and tied after rounding; the second flow
\* also names the file of the first flow and a tier-3 file, and no flow names
\* the tier-2 file
MixedFlows ==
    [flows |-> [k \in 1..MaxRunFlows |->
                   [name |-> SubSeq(UpperChars, k, k), description |-> "",
                    files |-> <<"src/" \o SubSeq(LowerChars, k, k) \o ".ts">>
                              \o (IF k = 2 THEN <<"src/a.ts", "yarn.lock">> ELSE <<>>),
                    priority |-> <<150, 14, 6, 26>>[((k - 1) % 4) + 1]]]]

\* The detection responses drawn: no flow, one flow that names no file of the
\* diff, 1..MaxRunFlows flows, and the flows of MixedFlows
RunDetectionResponses ==
    {[flows |-> <<>>],
     [flows |-> <<[name |-> "G", description |-> "", files |-> <<"ghost.ts">>,
                   priority |-> 10]>>],
     MixedFlows}
    \cup {DescendingFlows(n) : n \in 1..MaxRunFlows}

\* The DerivedIntent an intent call resolves to
IntentResponse ==
    [summary |-> "Adds login", purpose |-> "Let users log in", scope |-> "feature",
     affectedAreas |-> <<"auth">>, suggestedReviewOrder |-> Absent]

\* The RiskAssessments a risk call resolves to
FlowRiskResponses ==
    {[overallRisk |-> "medium", summary |-> "One risk",
      risks |-> <<MkRisk("medium", "a:b", "c", "e1")>>, confidence |-> "high"],
     [overallRisk |-> "high", summary |-> "Two risks",
      risks |-> <<MkRisk("low", "perf", "slow loop", "e2"),
                  MkRisk("high", "a", "b:c", "e1")>>,
      confidence |-> "medium"]}

\* The responses the synthesis call resolves to
SynthesisResponses ==
    {[summary |-> "Adds login", purpose |-> "Let users log in", scope |-> "feature",
      affectedAreas |-> <<"auth">>, suggestedReviewOrder |-> Absent,
      overallRisk |-> o, riskSummary |-> "Risks", keyRisks |-> <<>>,
      crossFlowConcerns |-> <<>>, confidence |-> "high"] : o \in {"low", "critical"}}

InitFlowRun ==
    /\ pc = "flowRunReady"
    /\ runClassified = classifyDiff(RunDiff)
    /\ calls = NoCalls
    /\ callCount = 0
    /\ detection = None
    /\ batchStart = None
    /\ flowCalls = None
    /\ flowResults = None
    /\ runResult = None
    /\ TwoPassIdle
    /\ PromptIdle
    /\ StrategyIdle /\ ParseIdle /\ ClassifyFileIdle /\ ClassifyDiffIdle /\ BudgetIdle
    /\ FlowIdle

\* runFlowBasedAnalysis up to the await of detectFlows, which is suspended in
\* its analyzer call
StartDetection ==
    /\ pc = "flowRunReady"
    /\ flowInput' = runClassified
    /\ calls' = [calls EXCEPT !.detect = CallPending]
    /\ callCount' = callCount + 1
    /\ pc' = "awaitingDetection"
    /\ UNCHANGED <<runClassified, runResult, flowResponse, flowResult, twoPassVars,
                   flowRunVars, idleVars>>

\* analyzeAllFlows is entered with the flows fd.flows and starts its first
\* batch
BeginAnalysis(fd) ==
    /\ detection' = fd
    /\ batchStart' = 0
    /\ flowCalls' = startBatch([k \in 1..Len(fd.flows) |-> FlowCallsIdle], 0)
    /\ flowResults' = <<>>
    /\ callCount' = callCount + batchCallCount(0, Len(fd.flows))

\* The detection call resolves: detectFlows returns, the fallback is applied
\* and analyzeAllFlows runs up to the await of its first batch
DetectionReturns ==
    /\ pc = "awaitingDetection"
    /\ \E response \in RunDetectionResponses :
          /\ flowResponse' = response
          /\ flowResult' = detectFlows(flowInput, response)
          /\ BeginAnalysis(withFallback(detectFlows(flowInput, response), runClassified))
    /\ calls' = [calls EXCEPT !.detect = CallReturned]
    /\ pc' = "analyzing"
    /\ UNCHANGED <<runClassified, runResult, flowInput, twoPassVars, idleVars>>

\* The detection call rejects: the await throws out of runFlowBasedAnalysis
DetectionRejects ==
    /\ pc = "awaitingDetection"
    /\ \E message \in FailureMessages :
          /\ calls' = [calls EXCEPT !.detect = CallRejected(ChatError("detect", message))]
          /\ runResult' = Rejection(ChatError("detect", message))
    /\ pc' = "rejected"
    /\ UNCHANGED <<runClassified, callCount, twoPassVars, flowRunVars, otherVars>>

\* A planted slip: the loop bound is off by one, a last batch of one flow is
\* never started.
AfterFlowCallSkipsLastFlow(fc) ==
    IF pc = "rejected" \/ ~batchResolved(fc, batchStart)
    THEN /\ flowCalls' = fc
         /\ UNCHANGED <<pc, calls, callCount, batchStart, flowResults>>
    ELSE IF batchStart + MAX_CONCURRENT_FLOWS + 1 < Len(fc)
    THEN /\ flowCalls' = startBatch(fc, batchStart + MAX_CONCURRENT_FLOWS)
         /\ batchStart' = batchStart + MAX_CONCURRENT_FLOWS
         /\ flowResults' = flowResults \o batchResults(detection.flows, fc, batchStart)
         /\ callCount' = callCount
                            + batchCallCount(batchStart + MAX_CONCURRENT_FLOWS, Len(fc))
         /\ UNCHANGED <<pc, calls>>
    ELSE /\ flowCalls' = fc
         /\ batchStart' = batchStart + MAX_CONCURRENT_FLOWS
         /\ flowResults' = flowResults \o batchResults(detection.flows, fc, batchStart)
         /\ calls' = [calls EXCEPT !.synthesis = CallPending]
         /\ callCount' = callCount + 1
         /\ pc' = "awaitingSynthesis"

\* What follows the resolution of a call of a flow, fc being the calls after
\* it: nothing while a Promise.all is still waiting or when the run has
\* rejected already; else the batch's results are pushed and the next batch
\* is started or, after the last batch, analyzeAllFlows returns and
\* synthesizeFlowResults runs up to the await of its analyzer call
AfterFlowCall(fc) ==
    IF pc = "rejected" \/ ~batchResolved(fc, batchStart)
    THEN /\ flowCalls' = fc
         /\ UNCHANGED <<pc, calls, callCount, batchStart, flowResults>>
    ELSE IF batchStart + MAX_CONCURRENT_FLOWS < Len(fc)
    THEN /\ flowCalls' = startBatch(fc, batchStart + MAX_CONCURRENT_FLOWS)
         /\ batchStart' = batchStart + MAX_CONCURRENT_FLOWS
         /\ flowResults' = flowResults \o batchResults(detection.flows, fc, batchStart)
         /\ callCount' = callCount
                            + batchCallCount(batchStart + MAX_CONCURRENT_FLOWS, Len(fc))
         /\ UNCHANGED <<pc, calls>>
    ELSE /\ flowCalls' = fc
         /\ batchStart' = batchStart + MAX_CONCURRENT_FLOWS
         /\ flowResults' = flowResults \o batchResults(detection.flows, fc, batchStart)
         /\ calls' = [calls EXCEPT !.synthesis = CallPending]
         /\ callCount' = callCount + 1
         /\ pc' = "awaitingSynthesis"

\* The intent call of a flow resolves
IntentReturns ==
    /\ pc \in {"analyzing", "rejected"}
    /\ calls.detect = CallReturned
    /\ \E k \in 1..Len(flowCalls) :
          /\ flowCalls[k].intent = CallPending
          /\ AfterFlowCall([flowCalls EXCEPT ![k].intent = CallReturned,
                                             ![k].intentResult = Some(IntentResponse)])
    /\ UNCHANGED <<runClassified, runResult, detection, twoPassVars, otherVars>>

\* The risk call of a flow resolves
RiskReturns ==
    /\ pc \in {"analyzing", "rejected"}
    /\ calls.detect = CallReturned
    /\ \E k \in 1..Len(flowCalls) :
          /\ flowCalls[k].risk = CallPending
          /\ \E response \in FlowRiskResponses :
                AfterFlowCall([flowCalls EXCEPT ![k].risk = CallReturned,
                                                ![k].riskResult = Some(response)])
    /\ UNCHANGED <<runClassified, runResult, detection, twoPassVars, otherVars>>

\* A planted slip: the batch is awaited with Promise.allSettled, a rejected
\* call does not reject the run.
AfterFlowCallRejectsSettled(k, error) == UNCHANGED <<pc, runResult>>

\* What follows the rejection of a call of flow k with error: every
\* Promise.all up to the await in runFlowBasedAnalysis rejects, unless the
\* run has rejected already
AfterFlowCallRejects(k, error) ==
    IF pc = "rejected"
    THEN UNCHANGED <<pc, runResult>>
    ELSE /\ pc' = "rejected"
         /\ runResult' = Rejection(flowError(error, RunDiff, runClassified,
                                             detection.flows[k]))

\* The identity of the intent or risk call of flow k
FlowCallId(which, k) == which \o " " \o NumberToString(k)

\* The intent call or the risk call of a flow rejects
FlowCallRejects ==
    /\ pc \in {"analyzing", "rejected"}
    /\ calls.detect = CallReturned
    /\ \E k \in 1..Len(flowCalls) : \E which \in {"intent", "risk"} :
          /\ flowCalls[k][which] = CallPending
          /\ \E message \in FailureMessages :
                /\ flowCalls' = [flowCalls EXCEPT ![k][which] =
                                    CallRejected(ChatError(FlowCallId(which, k), message))]
                /\ AfterFlowCallRejects(k, ChatError(FlowCallId(which, k), message))
    /\ UNCHANGED <<runClassified, calls, callCount, detection, batchStart, flowResults,
                   twoPassVars, otherVars>>

\* The synthesis call resolves: the result is built and returned
SynthesisReturns ==
    /\ pc = "awaitingSynthesis"
    /\ \E response \in SynthesisResponses :
          runResult' = flowRunResult(runClassified, detection, flowResults, response)
    /\ calls' = [calls EXCEPT !.synthesis = CallReturned]
    /\ pc' = "done"
    /\ UNCHANGED <<runClassified, callCount, twoPassVars, flowRunVars, otherVars>>

\* The synthesis call rejects: the await throws out of runFlowBasedAnalysis
SynthesisRejects ==
    /\ pc = "awaitingSynthesis"
    /\ \E message \in FailureMessages :
          /\ calls' = [calls EXCEPT !.synthesis =
                          CallRejected(ChatError("synthesis", message))]
          /\ runResult' = Rejection(ChatError("synthesis", message))
    /\ pc' = "rejected"
    /\ UNCHANGED <<runClassified, callCount, twoPassVars, flowRunVars, otherVars>>

NextFlowRun ==
    \/ StartDetection
    \/ DetectionReturns
    \/ DetectionRejects
    \/ IntentReturns
    \/ RiskReturns
    \/ FlowCallRejects
    \/ SynthesisReturns
    \/ SynthesisRejects

SpecFlowRun == InitFlowRun /\ [][NextFlowRun]_vars


\* Either executor is run
InitExecutors == InitTwoPass \/ InitFlowRun

NextExecutors == NextTwoPass \/ NextFlowRun

SpecExecutors == InitExecutors /\ [][NextExecutors]_vars

\* analyzeAllFlows has been entered: flowCalls holds the calls of the flows
Analyzing == pc \notin {"flowRunReady", "awaitingDetection"} /\ calls.detect = CallReturned

\* The flows with an analyzer call in flight
FlowsInFlight ==
    {k \in 1..Len(flowCalls) :
        flowCalls[k].intent = CallPending \/ flowCalls[k].risk = CallPending}

\* The flows whose analysis has been started
FlowsStarted == {k \in 1..Len(flowCalls) : flowCalls[k].intent # CallIdle}

\* The batch of the k-th flow (1-based k)
BatchIndex(k) == (k - 1) \div MAX_CONCURRENT_FLOWS

\* C17: at most 3 flow analyses are in flight at any time, and no flow of a
\* later batch is started before every flow of the batches before it has
\* completed its intent call and its risk call.
C17_BatchesOfThree ==
    Analyzing =>
        /\ Cardinality(FlowsInFlight) <= 3
        /\ \A k \in FlowsStarted : \A j \in 1..Len(flowCalls) :
              BatchIndex(j) < BatchIndex(k) => flowResolved(flowCalls[j])

\* Reached: the fourth flow is in flight after the three flows of the first
\* batch have completed.
C17_Witness ==
    /\ Analyzing
    /\ Len(flowCalls) >= 4
    /\ 4 \in FlowsInFlight
    /\ \A j \in 1..3 : flowResolved(flowCalls[j])


\* C19: the phases of runFlowBasedAnalysis do not overlap: until the
\* detection call has returned no other analyzer call has been issued, and
\* the synthesis call is issued only when every flow's intent call and risk
\* call have completed, after which no call of a flow is in flight.
C19_PhasesInOrder ==
    /\ (calls.detect # CallReturned) =>
          /\ callCount <= 1
          /\ calls.synthesis = CallIdle
    /\ (calls.synthesis # CallIdle) =>
          /\ \A k \in 1..Len(flowCalls) : flowResolved(flowCalls[k])
          /\ Len(flowResults) = Len(detection.flows)
          /\ callCount = 2 + 2 * Len(detection.flows)

\* Reached: the synthesis call is in flight after two batches of flows.
C19_Witness ==
    /\ pc = "awaitingSynthesis"
    /\ calls.synthesis = CallPending
    /\ Len(flowCalls) > MAX_CONCURRENT_FLOWS
    /\ batchStart > MAX_CONCURRENT_FLOWS

\* The paths of the files of tier 1 and 2 of the classified list, in its
\* order
RelevantPaths ==
    [k \in 1..Len(RelevantFiles(runClassified)) |-> RelevantFiles(runClassified)[k].file.path]

\* C20: when detectFlows returns no flow, the run analyzes exactly one flow,
\* whose files are the tier-1 and tier-2 paths of the classified list in
\* its order, and reports flowCount 1 and uncategorizedCount 0.
C20_FallbackFlow ==
    (pc = "done" /\ Len(flowResult.flows) = 0) =>
        /\ Len(runResult.flows) = 1
        /\ Len(flowCalls) = 1
        /\ callCount = 4
        /\ runResult.flows[1].flow.files = RelevantPaths
        /\ runResult.metadata.flowCount = 1
        /\ runResult.metadata.uncategorizedCount = 0

\* Reached: the response named a flow, validation left none, and the run
\* ended with the fallback flow.
C20_Witness ==
    /\ pc = "done"
    /\ Len(flowResponse.flows) = 1
    /\ Len(flowResult.flows) = 0
    /\ Len(flowResult.uncategorized) > 0
    /\ runResult.flows[1].flow.name = "All Changes"


\* The errors of the analyzer calls that have rejected
RejectedErrors ==
    {calls[c].error[1] : c \in {c \in DOMAIN calls : calls[c].status = "rejected"}}
    \cup (IF calls.detect = CallReturned
          THEN {flowCalls[kw[1]][kw[2]].error[1] :
                   kw \in {kw \in (1..Len(flowCalls)) \X {"intent", "risk"} :
                              flowCalls[kw[1]][kw[2]].status = "rejected"}}
          ELSE {})

\* The error is that of the intent call or the risk call of a flow
IsFlowCallError(e) == StartsWith(e.call, "intent ") \/ StartsWith(e.call, "risk ")

\* The rejection r passes the error e on: the error itself, or for a
\* validation error of a flow's call a new error with e as its cause
PassesOn(r, e) ==
    IF IsFlowCallError(e) /\ Includes(e.message, "Validation failed")
    THEN r.error.cause = Some(e) /\ StartsWith(r.error.message, e.message)
    ELSE r.error = e

\* Once the run has rejected it stays rejected with the same error, no
\* analyzer call is issued and no rejected call is tried again
NothingAfterRejection ==
    (pc = "rejected") =>
        /\ pc' = "rejected"
        /\ runResult' = runResult
        /\ callCount' = callCount
        /\ RejectedErrors \subseteq RejectedErrors'

\* C18 as stated: whenever an analyzer call of a run has rejected, the run
\* has rejected with that call's failure; nothing is retried or started
\* afterwards and no partial result is returned.
C18_Original ==
    [][/\ \A e \in RejectedErrors' : pc' = "rejected" /\ runResult' = Rejection(e)
       /\ NothingAfterRejection]_vars

\* C18 (amended): whenever an analyzer call of a run has rejected, the run has
\* rejected; it rejects with the failure of the first call that rejected,
\* passed on unchanged except that a validation error of a flow's intent or
\* risk call is replaced by an error that has it as cause; failures of calls
\* still in flight are ignored; nothing is retried or started afterwards
\* and no partial result is returned.
C18_RejectionPropagates ==
    [][/\ (RejectedErrors' # {}) => (pc' = "rejected" /\ runResult'.rejected)
       /\ (pc # "rejected" /\ pc' = "rejected") =>
             /\ Cardinality(RejectedErrors' \ RejectedErrors) = 1
             /\ \A e \in RejectedErrors' \ RejectedErrors : PassesOn(runResult', e)
       /\ NothingAfterRejection]_vars

\* Reached: a flow-based run that rejected with a wrapped validation error
\* and in which a second call has rejected since.
C18_Witness ==
    /\ pc = "rejected"
    /\ Cardinality(RejectedErrors) >= 2
    /\ runResult.error.cause # Absent
    /\ \E e \in RejectedErrors : ~Includes(e.message, "Validation failed")

(***************************************************************************)
(* loadForBudget: the partition of the list                                *)
(***************************************************************************)

\* The position of a file in the list given to loadForBudget
ListPosition(cf) == CHOOSE k \in 1..Len(budgetList) : budgetList[k] = cf

\* The files of seq stand in the order of the list
InListOrder(seq) ==
    \A i, j \in 1..Len(seq) : i < j => ListPosition(seq[i]) < ListPosition(seq[j])

\* How often a file occurs in included and excluded together
Occurs(cf) ==
    Cardinality({i \in 1..Len(budgetResult.included) : budgetResult.included[i] = cf})
    + Cardinality({i \in 1..Len(budgetResult.excluded) : budgetResult.excluded[i] = cf})

\* C30: included and excluded together hold every file of the list exactly
\* once, each in the order of the list, and no excluded file fits in what is
\* left of the budget: totalTokens plus its estimate is greater than
\* maxTokens.
C30_PartitionAndNoFit ==
    (pc = "done") =>
        /\ \A k \in 1..Len(budgetList) : Occurs(budgetList[k]) = 1
        /\ Len(budgetResult.included) + Len(budgetResult.excluded) = Len(budgetList)
        /\ InListOrder(budgetResult.included)
        /\ InListOrder(budgetResult.excluded)
        /\ \A i \in 1..Len(budgetResult.excluded) :
              budgetResult.totalTokens + budgetResult.excluded[i].estimatedTokens
                  > maxTokens

\* Reached: an excluded file that alone is within the budget, with a file
\* included before it and a file included after it.
C30_Witness ==
    /\ pc = "done"
    /\ Len(budgetResult.excluded) = 1
    /\ Len(budgetResult.included) = 2
    /\ budgetResult.excluded[1].estimatedTokens <= maxTokens
    /\ ListPosition(budgetResult.included[1]) < ListPosition(budgetResult.excluded[1])
    /\ ListPosition(budgetResult.excluded[1]) < ListPosition(budgetResult.included[2])


(***************************************************************************)
(* Diff parser: the end of a hunk and the files of a text                  *)
(***************************************************************************)

\* The line begins like one of the lines said to end a hunk
IsHunkTerminator(line) ==
    \E prefix \in {"@@", "diff --git ", "index ", "--- ", "+++ ", "new file",
                   "deleted file"} : StartsWith(line, prefix)

\* The text is a "diff --git" line, a well-formed hunk header and a body
HasHunkAtSecondLine ==
    /\ Len(rawLines) >= 2
    /\ StartsWith(rawLines[1], "diff --git ")
    /\ rawLines[2] \in HunkHeaderLines

\* The lines of the body before its first line that begins like a terminator
BodyBeforeTerminator ==
    {k \in 3..Len(rawLines) : \A j \in 3..k : ~IsHunkTerminator(rawLines[j])}

\* C26: a line of a hunk body that begins with "@@", "diff --git ", "index ",
\* "--- ", "+++ ", "new file" or "deleted file" ends the hunk and is not
\* recorded: the hunk has no more DiffLines than there are body lines before
\* the first such line.
C26_TerminatorsEndHunk ==
    (Parsed /\ HasHunkAtSecondLine) =>
        Len(parsed.files[1].hunks[1].lines) <= Cardinality(BodyBeforeTerminator)


\* The 1-based positions of the lines of the text that begin with
\* "diff --git "
DiffLinePositions == {k \in 1..Len(rawLines) : StartsWith(rawLines[k], "diff --git ")}

\* The n-th of these lines
NthDiffLine(n) ==
    rawLines[CHOOSE k \in DiffLinePositions :
                 Cardinality({j \in DiffLinePositions : j < k}) = n - 1]

\* C28: a text that parses yields one DiffFile for each of its lines that
\* begin with "diff --git ", in the order of these lines, wherever they
\* stand; a text of whitespace only yields no file.
C28_OneFilePerDiffLine ==
    Parsed =>
        /\ Len(parsed.files) = Cardinality(DiffLinePositions)
        /\ \A n \in 1..Len(parsed.files) :
              parsed.files[n].path = parseGitDiffLine(NthDiffLine(n)).path
        /\ (\A k \in 1..Len(rawLines) : \A c \in CharsOf(rawLines[k]) : IsWhitespace(c))
              => parsed.files = <<>>

\* Reached: a second "diff --git" line after skipped binary content gave a
\* second file, with a path other than the first file's.
C28_Witness ==
    /\ Parsed
    /\ Len(rawLines) = 4
    /\ IsBinaryMarker(rawLines[2])
    /\ DiffLinePositions = {1, 4}
    /\ Len(parsed.files) = 2
    /\ parsed.files[1].path # parsed.files[2].path


(***************************************************************************)
(* Two-pass executor: the merged risk summary                              *)
(***************************************************************************)

\* The merged risks of a severity
MergedOf(severity) == {k \in 1..Len(MergedRisks) : MergedRisks[k].severity = severity}

\* The summary with the count callout for the critical risks, else for the
\* high risks, else the deep-dive summary
CalloutSummary ==
    IF MergedOf("critical") # {}
    THEN NumberToString(Cardinality(MergedOf("critical"))) \o " critical risk(s) found. "
            \o deepDive.summary
    ELSE IF MergedOf("high") # {}
    THEN NumberToString(Cardinality(MergedOf("high"))) \o " high-severity risk(s) found. "
            \o deepDive.summary
    ELSE deepDive.summary

\* C25 as stated: the summary mergeResults returns is the deep-dive summary
\* with the count of the critical risks in front when the merged list has a
\* critical risk, else with the count of the high risks in front when it
\* has a high risk, and in every other case the deep-dive summary itself.
C25_Original == (pc = "done") => runResult.risks.summary = CalloutSummary

\* C25 (amended): as stated when the merged list has a risk; when it has
\* none, the summary is the fixed text "No significant risks identified in
\* detailed review." and not the deep-dive summary.
C25_SummaryCallout ==
    (pc = "done") =>
        runResult.risks.summary =
            IF Len(MergedRisks) = 0
            THEN "No significant risks identified in detailed review."
            ELSE CalloutSummary

\* Reached: a run whose merged risks hold a critical risk and two high
\* risks; the summary counts the critical one.
C25_Witness ==
    /\ pc = "done"
    /\ Cardinality(MergedOf("critical")) = 1
    /\ Cardinality(MergedOf("high")) = 2
    /\ runResult.risks.summary = "1 critical risk(s) found. Deep-dive summary"


(***************************************************************************)
(* Flow-based executor: order of submission, order of the results and the  *)
(* files each flow's analysis sees                                         *)
(***************************************************************************)

\* C23: flows are submitted in non-decreasing order of their priority
\* (rounded and clamped to 1..10): whenever the analysis of a flow has been
\* started, the analysis of every flow with a strictly smaller priority has
\* been started too.
C23_SubmittedByPriority ==
    Analyzing =>
        /\ \A k \in 1..Len(detection.flows) : detection.flows[k].priority \in 1..10
        /\ \A k \in FlowsStarted : \A j \in 1..Len(flowCalls) :
              detection.flows[j].priority < detection.flows[k].priority
                  => j \in FlowsStarted

\* Reached: the first batch of a run whose response listed the flow of the
\* largest priority first and two flows that tie after rounding; the flow
\* of the largest priority is the one not started yet.
C23_Witness ==
    /\ pc = "analyzing"
    /\ calls.detect = CallReturned
    /\ flowResponse = MixedFlows
    /\ batchStart = 0
    /\ FlowsStarted = 1..MAX_CONCURRENT_FLOWS
    /\ detection.flows[1].priority = detection.flows[2].priority
    /\ detection.flows[Len(detection.flows)].name = flowResponse.flows[1].name

\* C24: in whatever order the analyzer calls complete, analyzeAllFlows
\* resolves to one result per input flow, the i-th result being that of the
\* i-th flow: its flow, and what the intent call and the risk call of that
\* flow resolved to.
C24_ResultsInInputOrder ==
    (Analyzing /\ pc \in {"awaitingSynthesis", "done"}) =>
        /\ Len(flowResults) = Len(detection.flows)
        /\ \A i \in 1..Len(flowResults) :
              /\ flowResults[i].flow = detection.flows[i]
              /\ flowResults[i].intent = flowCalls[i].intentResult[1]
              /\ flowResults[i].risks = flowCalls[i].riskResult[1]
        /\ (pc = "done") => runResult.flows = flowResults

\* Reached: analyzeAllFlows has resolved for two batches, and neighbouring
\* flows of the first batch have different risk assessments.
C24_Witness ==
    /\ pc = "awaitingSynthesis"
    /\ Len(flowResults) > MAX_CONCURRENT_FLOWS
    /\ flowResults[1].risks # flowResults[2].risks
    /\ flowResults[2].risks # flowResults[3].risks

\* The paths of the filtered diff that the analysis of the k-th flow sees
AnalyzedPaths(k) ==
    {filterDiffForFlow(RunDiff, detection.flows[k])[j].path :
        j \in 1..Len(filterDiffForFlow(RunDiff, detection.flows[k]))}

\* The flows whose filtered diff contains the path
FlowsWithPath(path) == {k \in 1..Len(detection.flows) : path \in AnalyzedPaths(k)}

\* The paths of the tier-3 files of the classified list
Tier3Paths ==
    {runClassified[k].file.path :
        k \in {k \in 1..Len(runClassified) : runClassified[k].tier = 3}}

\* C29 as stated: every path of the diff is in the filtered diff of at most
\* one analyzed flow, a tier-3 path in none, and a path that detectFlows
\* returned as uncategorized in none: it only counts in
\* metadata.uncategorizedCount.
C29_Original ==
    Analyzing =>
        /\ \A k \in 1..Len(RunDiff) : Cardinality(FlowsWithPath(RunDiff[k].path)) <= 1
        /\ \A path \in Tier3Paths : FlowsWithPath(path) = {}
        /\ \A path \in SeqToSet(flowResult.uncategorized) : FlowsWithPath(path) = {}
        /\ (pc = "done") =>
              runResult.metadata.uncategorizedCount = Len(flowResult.uncategorized)

\* C29 (amended): every path of the diff is in the filtered diff of at most
\* one analyzed flow and a tier-3 path in none.  When detectFlows returned a
\* flow, a path it returned as uncategorized is in no flow's filtered diff
\* and counts in metadata.uncategorizedCount; when it returned no flow, the
\* paths it returned as uncategorized are exactly those of the fallback flow
\* and metadata.uncategorizedCount is 0.
C29_FilteredDiffsDisjoint ==
    Analyzing =>
        /\ \A k \in 1..Len(RunDiff) : Cardinality(FlowsWithPath(RunDiff[k].path)) <= 1
        /\ \A path \in Tier3Paths : FlowsWithPath(path) = {}
        /\ (Len(flowResult.flows) > 0) =>
              /\ \A path \in SeqToSet(flowResult.uncategorized) : FlowsWithPath(path) = {}
              /\ (pc = "done") =>
                    runResult.metadata.uncategorizedCount = Len(flowResult.uncategorized)
        /\ (Len(flowResult.flows) = 0) =>
              /\ AnalyzedPaths(1) = SeqToSet(flowResult.uncategorized)
              /\ (pc = "done") => runResult.metadata.uncategorizedCount = 0

\* Reached: a finished run of several flows in which the response named one
\* file in two flows and a tier-3 file, and left a file uncategorized.
C29_Witness ==
    /\ pc = "done"
    /\ calls.detect = CallReturned
    /\ flowResponse = MixedFlows
    /\ Len(detection.flows) > 1
    /\ runResult.metadata.uncategorizedCount = 1
    /\ FlowsWithPath("src/a.ts") = {Len(detection.flows)}


(***************************************************************************)
(* Deleted-file summarizer (services/deleted-file-summary.ts) and token    *)
(* estimate (utils/token-estimate.ts)                                      *)
(***************************************************************************)

SUMMARY_THRESHOLD_LINES == 100

HEADER_LINE_COUNT == 15

\* hunk.lines.filter((l) => l.type === "delete").map((l) => l.content)
deletedContents(hunk) ==
    LET IsDelete(l) == l.type = "delete"
        kept == SelectSeq(hunk.lines, IsDelete)
    IN  [k \in 1..Len(kept) |-> kept[k].content]

\* A planted slip: a file of exactly the threshold is summarized.
shouldSummarizeDeletedFileAtThreshold(f) ==
    IF f.status # "deleted" THEN FALSE
    ELSE SumSeq([k \in 1..Len(f.hunks) |-> Len(deletedContents(f.hunks[k]))])
            >= SUMMARY_THRESHOLD_LINES

shouldSummarizeDeletedFile(f) ==
    IF f.status # "deleted" THEN FALSE
    ELSE SumSeq([k \in 1..Len(f.hunks) |-> Len(deletedContents(f.hunks[k]))])
            > SUMMARY_THRESHOLD_LINES

\* lines.join(sep), joining the two halves of the list
RECURSIVE Join(_, _)
Join(lines, sep) ==
    IF lines = <<>> THEN ""
    ELSE IF Len(lines) = 1 THEN lines[1]
    ELSE Join(SubSeq(lines, 1, Len(lines) \div 2), sep) \o sep
         \o Join(SubSeq(lines, Len(lines) \div 2 + 1, Len(lines)), sep)

\* seqs.flat(), joining the two halves of the list
RECURSIVE Flat(_)
Flat(seqs) ==
    IF seqs = <<>> THEN <<>>
    ELSE IF Len(seqs) = 1 THEN seqs[1]
    ELSE Flat(SubSeq(seqs, 1, Len(seqs) \div 2))
         \o Flat(SubSeq(seqs, Len(seqs) \div 2 + 1, Len(seqs)))

\* The characters \s and \w match, among those of the lines drawn
Whitespace == " \t\n\r"
WordChars == LowerChars \o UpperChars \o Digits \o "_"

\* s without its longest prefix made of characters of chars
RECURSIVE SkipWhile(_, _)
SkipWhile(s, chars) ==
    IF Len(s) > 0 /\ SubSeq(s, 1, 1) \in CharsOf(chars)
    THEN SkipWhile(Slice(s, 1), chars)
    ELSE s

\* s.trim()
RECURSIVE TrimEnd(_)
TrimEnd(s) ==
    IF Len(s) > 0 /\ SubSeq(s, Len(s), Len(s)) \in CharsOf(Whitespace)
    THEN TrimEnd(SubSeq(s, 1, Len(s) - 1))
    ELSE s

Trim(s) == TrimEnd(SkipWhile(s, Whitespace))

\* s.split(c) for a one-character c
RECURSIVE Split(_, _)
Split(s, c) ==
    IF IndexOf(s, c) = -1 THEN <<s>>
    ELSE <<SubSeq(s, 1, IndexOf(s, c))>> \o Split(Slice(s, IndexOf(s, c) + 1), c)

\* word\s+ at the start of s: what follows it, or Absent when s does not
\* start that way
afterKeyword(s, word) ==
    IF StartsWith(s, word)
          /\ SkipWhile(Slice(s, Len(word)), Whitespace) # Slice(s, Len(word))
    THEN Some(SkipWhile(Slice(s, Len(word)), Whitespace))
    ELSE Absent

\* (?:word\s+)? for each word of optionals in turn, then word\s+ for each
\* word of keywords, at the start of s: what follows, or Absent
RECURSIVE afterKeywords(_, _, _)
afterKeywords(s, optionals, keywords) ==
    IF optionals # <<>>
    THEN afterKeywords(IF afterKeyword(s, Head(optionals)) = Absent THEN s
                       ELSE afterKeyword(s, Head(optionals))[1],
                       Tail(optionals), keywords)
    ELSE IF keywords = <<>> THEN Some(s)
    ELSE IF afterKeyword(s, Head(keywords)) = Absent THEN Absent
    ELSE afterKeywords(afterKeyword(s, Head(keywords))[1], <<>>, Tail(keywords))

\* (\w+) at the start of s, followed by \s*= when assigned: the word, or
\* Absent
capturedWord(s, assigned) ==
    LET rest == SkipWhile(s, WordChars)
    IN  IF Len(rest) = Len(s) THEN Absent
        ELSE IF assigned /\ ~StartsWith(SkipWhile(rest, Whitespace), "=") THEN Absent
        ELSE Some(SubSeq(s, 1, Len(s) - Len(rest)))

\* The word captured by ^(?:optionals\s+)?keywords\s+(\w+) on a line
declaredName(line, optionals, keywords, assigned) ==
    IF afterKeywords(line, optionals, keywords) = Absent THEN Absent
    ELSE capturedWord(afterKeywords(line, optionals, keywords)[1], assigned)

\* The signatures one declaration pattern adds, in the order of the lines
declarations(lines, optionals, keywords, assigned, before, after) ==
    Flat([k \in 1..Len(lines) |->
        IF declaredName(lines[k], optionals, keywords, assigned) = Absent THEN <<>>
        ELSE <<before \o declaredName(lines[k], optionals, keywords, assigned)[1]
                  \o after>>])

\* name.trim().split(/\s+as\s+/)[0]?.trim()
exportedName(name) ==
    LET t == Trim(name)
        IsAs(k) == /\ SubSeq(t, k, k) \in CharsOf(Whitespace)
                   /\ afterKeyword(SkipWhile(Slice(t, k - 1), Whitespace), "as") # Absent
        hits == {k \in 1..Len(t) : IsAs(k)}
    IN  IF hits = {} THEN t
        ELSE Trim(SubSeq(t, 1, (CHOOSE k \in hits : \A j \in hits : k <= j) - 1))

\* ([^}]+) of ^export\s+\{([^}]+)\} on a line, or Absent
exportList(line) ==
    LET rest == afterKeyword(line, "export")
    IN  IF rest = Absent THEN Absent
        ELSE IF ~StartsWith(rest[1], "{") \/ IndexOf(rest[1], "}") < 2 THEN Absent
        ELSE Some(SubSeq(rest[1], 2, IndexOf(rest[1], "}")))

\* The signature ^export\s+\{([^}]+)\} adds for a line
namedExports(line) ==
    LET found == exportList(line)
        names == SelectSeq([k \in 1..Len(Split(found[1], ",")) |->
                               exportedName(Split(found[1], ",")[k])],
                           LAMBDA n : n # "")
    IN  IF found = Absent \/ names = <<>> THEN <<>>
        ELSE <<"export { " \o Join(names, ", ") \o " }">>

\* extractSignatures(content, ext) for content = lines.join("\n"); a pattern
\* is matched on each line
extractSignatures(lines, ext) ==
    IF ext \in {".ts", ".tsx", ".js", ".jsx", ".mjs", ".cjs"}
    THEN declarations(lines, <<"export", "default", "abstract">>, <<"class">>, FALSE,
                      "class ", "")
         \o declarations(lines, <<"export", "default", "async">>, <<"function">>, FALSE,
                         "function ", "()")
         \o declarations(lines, <<>>, <<"export", "const">>, TRUE, "const ", "")
         \o declarations(lines, <<"export">>, <<"interface">>, FALSE, "interface ", "")
         \o declarations(lines, <<"export">>, <<"type">>, TRUE, "type ", "")
         \o Flat([k \in 1..Len(lines) |-> namedExports(lines[k])])
    ELSE IF ext = ".py"
    THEN declarations(lines, <<>>, <<"class">>, FALSE, "class ", "")
         \o declarations(lines, <<"async">>, <<"def">>, FALSE, "def ", "()")
    ELSE <<>>

getFileExtension(path) ==
    IF LastIndexOf(path, ".") = -1 THEN ""
    ELSE ToLowerCase(Slice(path, LastIndexOf(path, ".")))

getLanguageHint(ext) ==
    CASE ext \in {".ts", ".tsx"} -> "typescript"
      [] ext \in {".js", ".jsx", ".mjs", ".cjs"} -> "javascript"
      [] ext = ".py" -> "python"
      [] ext = ".rs" -> "rust"
      [] ext = ".go" -> "go"
      [] ext = ".java" -> "java"
      [] ext = ".rb" -> "ruby"
      [] ext = ".css" -> "css"
      [] ext = ".scss" -> "scss"
      [] ext = ".json" -> "json"
      [] ext \in {".yaml", ".yml"} -> "yaml"
      [] ext = ".md" -> "markdown"
      [] OTHER -> ""

summarizeDeletedFile(f) ==
    LET allLines == Flat([k \in 1..Len(f.hunks) |-> deletedContents(f.hunks[k])])
    IN  [headerLines |-> SubSeq(allLines, 1, Min(HEADER_LINE_COUNT, Len(allLines))),
         signatures |-> extractSignatures(allLines, getFileExtension(f.path)),
         totalLines |-> Len(allLines)]

\* The code fence of three backquotes; '~' stands for the backquote, which
\* a string of the model cannot hold
Fence == "~~~"

formatDeletedFileSummary(f, summary) ==
    Join(<<"DELETED FILE: " \o f.path \o " (" \o NumberToString(summary.totalLines)
              \o " lines)",
           "",
           "First " \o NumberToString(Len(summary.headerLines))
              \o " lines (header/imports):",
           Fence \o getLanguageHint(getFileExtension(f.path))>>
         \o summary.headerLines
         \o <<Fence>>
         \o (IF Len(summary.signatures) > 0
             THEN <<"", "Extracted signatures:">>
                  \o [k \in 1..Len(summary.signatures) |-> "- " \o summary.signatures[k]]
             ELSE <<>>),
         "\n")

\* estimateTokens(text) of utils/token-estimate.ts
estimateTextTokens(text) == CeilDiv(Len(text), 4)

\* file.hunks.flatMap((h) => h.lines.map((l) => l.content)).join("\n")
fullContent(f) ==
    Join(Flat([k \in 1..Len(f.hunks) |->
                       [j \in 1..Len(f.hunks[k].lines) |-> f.hunks[k].lines[j].content]]),
         "\n")

estimateFileTokens(f) ==
    LET originalTokens == estimateTextTokens(fullContent(f))
    IN  IF shouldSummarizeDeletedFile(f)
        THEN [original |-> originalTokens,
              withSummarization |->
                  estimateTextTokens(formatDeletedFileSummary(f, summarizeDeletedFile(f))),
              summarized |-> TRUE]
        ELSE [original |-> originalTokens, withSummarization |-> originalTokens,
              summarized |-> FALSE]

\* Math.round of a quotient of integers is the floor of the quotient plus a
\* half
estimateDiffTokens(files) ==
    LET fileEstimates ==
            [k \in 1..Len(files) |->
                [path |-> files[k].path, estimate |-> estimateFileTokens(files[k])]]
        original ==
            SumSeq([k \in 1..Len(files) |-> fileEstimates[k].estimate.original])
        withSummarization ==
            SumSeq([k \in 1..Len(files) |-> fileEstimates[k].estimate.withSummarization])
        savings == original - withSummarization
    IN  [files |-> fileEstimates,
         totals |-> [original |-> original,
                     withSummarization |-> withSummarization,
                     savings |-> savings,
                     savingsPercent |->
                         IF original > 0
                         THEN (200 * savings + original) \div (2 * original)
                         ELSE 0]]


\* Most deleted lines of a file drawn
MaxDeleted == 102

\* The first lines of a file drawn with a header: declarations of every
\* kind extractSignatures looks for
SignatureLines ==
    <<"import x from 'y'", "export default class Foo {", "async function run() {",
      "export const a = 1", "interface Props {", "export type Id = string",
      "export { a, b as c }", "def load(path):", "typeless = 1">>

\* The contents of the d deleted lines of a file drawn
deletedLinesOf(d, filler, withHeader) ==
    [k \in 1..d |->
        IF withHeader /\ k <= Len(SignatureLines) THEN SignatureLines[k] ELSE filler]

\* A file with d deleted lines in one hunk, or in two hunks when there are
\* more than 60; a mixed file also has a context line and an added line
EstimateFile(path, status, d, filler, withHeader, mixed) ==
    LET contents == deletedLinesOf(d, filler, withHeader)
        first == Min(d, 60)
        deletes(from, to) ==
            [k \in 1..(to - from + 1) |->
                MkLine("delete", contents[from + k - 1], Some(from + k - 1), Absent)]
    IN  MkFile(path, Absent, status,
               <<MkHunk(1, first, 1, 0, "@@ -1 +1 @@",
                        (IF mixed THEN <<MkLine("context", "ctx", Some(1), Some(1))>>
                         ELSE <<>>)
                        \o deletes(1, first))>>
               \o (IF d > 60
                   THEN <<MkHunk(61, d - 60, 1, 0, "@@ -61 +1 @@",
                                 deletes(61, d)
                                 \o (IF mixed THEN <<MkLine("add", "new", Absent, Some(1))>>
                                     ELSE <<>>))>>
                   ELSE <<>>),
               FALSE)

EstimateFiles ==
    {EstimateFile(path, status, d, filler, withHeader, mixed) :
        path \in {"src/a.ts", "lib/b.py", "Makefile"},
        status \in {"deleted", "modified", "added", "renamed"},
        d \in {0, 1} \cup ((SUMMARY_THRESHOLD_LINES - 1)..MaxDeleted),
        filler \in {"", "  }", "  const value = compute(first, second, third, fourth)"},
        withHeader \in BOOLEAN, mixed \in BOOLEAN}

\* The files that may follow the first file of a diff drawn
SecondFiles ==
    {EstimateFile("src/z.ts", "deleted", MaxDeleted,
                  "  const value = compute(first, second, third, fourth)", TRUE, FALSE),
     EstimateFile("src/y.ts", "modified", 1, "x", FALSE, TRUE)}

InitEstimate ==
    /\ pc = "ready"
    /\ estimateFiles \in {<<f>> : f \in EstimateFiles}
                         \cup {<<f, g>> : f \in EstimateFiles, g \in SecondFiles}
    /\ tokenEstimate = None
    /\ previewFile = None /\ preview = None
    /\ ExecutorIdle
    /\ StrategyIdle /\ ParseIdle /\ ClassifyFileIdle /\ ClassifyDiffIdle /\ BudgetIdle
    /\ FlowIdle

EstimateDiffTokens ==
    /\ pc = "ready"
    /\ tokenEstimate' = estimateDiffTokens(estimateFiles)
    /\ pc' = "done"
    /\ UNCHANGED <<executorVars, estimateFiles, previewVars, strategyVars, parseVars,
                   classifyFileVars, classifyDiffVars, budgetVars, flowVars>>

NextEstimate == EstimateDiffTokens

SpecEstimate == InitEstimate /\ [][NextEstimate]_vars

\* The delete-type lines of a file, counted over all its hunks
DeleteLineCount(f) ==
    Cardinality({hj \in (1..Len(f.hunks)) \X (1..(MaxDeleted + 2)) :
                    /\ hj[2] <= Len(f.hunks[hj[1]].lines)
                    /\ f.hunks[hj[1]].lines[hj[2]].type = "delete"})

\* C21: a file is summarized if and only if its status is "deleted" and it
\* has more than 100 delete-type lines over all its hunks: 100 deleted lines
\* are not summarized, 101 are, and a file of another status never is.
C21_SummarizeThreshold ==
    (pc = "done") =>
        \A k \in 1..Len(estimateFiles) :
            /\ tokenEstimate.files[k].estimate.summarized
                  = (estimateFiles[k].status = "deleted"
                        /\ DeleteLineCount(estimateFiles[k]) > 100)
            /\ shouldSummarizeDeletedFile(estimateFiles[k])
                  = tokenEstimate.files[k].estimate.summarized
            /\ (DeleteLineCount(estimateFiles[k]) = 100) =>
                  ~tokenEstimate.files[k].estimate.summarized

\* Reached: a deleted file of two hunks with exactly 101 deleted lines, and
\* lines of other types, was summarized.
C21_Witness ==
    /\ pc = "done"
    /\ estimateFiles[1].status = "deleted"
    /\ DeleteLineCount(estimateFiles[1]) = 101
    /\ Len(estimateFiles[1].hunks) = 2
    /\ Len(estimateFiles[1].hunks[1].lines) + Len(estimateFiles[1].hunks[2].lines) > 101
    /\ tokenEstimate.files[1].estimate.summarized

\* C22: every summarized file has withSummarization strictly less than
\* original, so the savings of the diff are positive when a file is
\* summarized and never negative.
C22_SummarySavesTokens ==
    (pc = "done") =>
        /\ \A k \in 1..Len(estimateFiles) :
              tokenEstimate.files[k].estimate.summarized =>
                  tokenEstimate.files[k].estimate.withSummarization
                      < tokenEstimate.files[k].estimate.original
        /\ tokenEstimate.totals.savings >= 0
        /\ (\E k \in 1..Len(estimateFiles) : tokenEstimate.files[k].estimate.summarized)
              => tokenEstimate.totals.savings > 0

(***************************************************************************)
(* Two-pass executor: the preview of a file in the overview prompt         *)
(***************************************************************************)

OVERVIEW_LINES_PER_FILE == 20

\* toUpperCase of the lower-case letters, tabulated
UpperCharMap == [c \in CharsOf(LowerChars) |-> CharAt(UpperChars, IndexOf(LowerChars, c))]

\* s.toUpperCase()
RECURSIVE ToUpperCase(_)
ToUpperCase(s) ==
    IF s = "" THEN ""
    ELSE (IF SubSeq(s, 1, 1) \in DOMAIN UpperCharMap THEN UpperCharMap[SubSeq(s, 1, 1)]
          ELSE SubSeq(s, 1, 1))
         \o ToUpperCase(Slice(s, 1))

\* file.hunks.reduce((sum, h) => sum + h.lines.filter(l => l.type === type).length, 0)
typeLineCount(f, type) ==
    SumSeq([k \in 1..Len(f.hunks) |->
              Cardinality({j \in 1..Len(f.hunks[k].lines) :
                              f.hunks[k].lines[j].type = type})])

\* The header line of a file with its status and counts; "->" stands for
\* the arrow between the two paths of a renamed file
overviewHeader(f) ==
    "=== "
    \o (IF f.status = "renamed" /\ f.oldPath # Absent /\ f.oldPath # Some("")
        THEN f.oldPath[1] \o " -> " ELSE "")
    \o f.path \o " (" \o ToUpperCase(f.status) \o ") [+"
    \o NumberToString(typeLineCount(f, "add")) \o "/-"
    \o NumberToString(typeLineCount(f, "delete")) \o "] ==="

\* The inner loop over the lines of a hunk from line j on: the lines pushed
\* and the count of changed lines after it
RECURSIVE overviewHunkLines(_, _, _, _, _)
overviewHunkLines(hunkLines, j, changeLineCount, changed, lines) ==
    IF j > Len(hunkLines) THEN [lines |-> lines, changeLineCount |-> changeLineCount]
    ELSE IF changeLineCount >= OVERVIEW_LINES_PER_FILE
    THEN [lines |-> Append(lines, "... (" \o NumberToString(changed - changeLineCount)
                                   \o " more changed lines)"),
          changeLineCount |-> changeLineCount]
    ELSE IF hunkLines[j].type \in {"add", "delete"}
    THEN overviewHunkLines(hunkLines, j + 1, changeLineCount + 1, changed,
                           Append(lines, (IF hunkLines[j].type = "add" THEN "+" ELSE "-")
                                         \o hunkLines[j].content))
    ELSE overviewHunkLines(hunkLines, j + 1, changeLineCount, changed, lines)

\* The outer loop over the hunks from hunk k on
RECURSIVE overviewHunks(_, _, _, _, _)
overviewHunks(hunks, k, changeLineCount, changed, lines) ==
    IF k > Len(hunks) \/ changeLineCount >= OVERVIEW_LINES_PER_FILE THEN lines
    ELSE overviewHunks(hunks, k + 1,
                       overviewHunkLines(hunks[k].lines, 1, changeLineCount, changed,
                                         Append(lines, hunks[k].header)).changeLineCount,
                       changed,
                       overviewHunkLines(hunks[k].lines, 1, changeLineCount, changed,
                                         Append(lines, hunks[k].header)).lines)

formatFileForOverview(f) ==
    IF f.isBinary THEN Join(<<overviewHeader(f), "[binary file]">>, "\n")
    ELSE Join(overviewHunks(f.hunks, 1, 0,
                            typeLineCount(f, "add") + typeLineCount(f, "delete"),
                            <<overviewHeader(f)>>),
              "\n")

\* Most changed lines of a hunk drawn
MaxChanged == 22

\* A hunk with n changed lines, the first of them numbered from + 1 in the
\* file, after lead context lines and before trail context lines
PreviewHunk(from, n, lead, trail) ==
    MkHunk(1, n + lead + trail, 1, n + lead + trail,
           "@@ -1 +1 @@ h" \o NumberToString(from),
           [k \in 1..lead |-> MkLine("context", "before", Some(k), Some(k))]
           \o [k \in 1..n |->
                 IF (from + k) % 2 = 0
                 THEN MkLine("add", "line " \o NumberToString(from + k), Absent, Some(k))
                 ELSE MkLine("delete", "line " \o NumberToString(from + k), Some(k), Absent)]
           \o [k \in 1..trail |-> MkLine("context", "after", Some(k), Some(k))])

\* The numbers of changed lines of a hunk drawn: few, about the limit, most
ChangedCounts ==
    {0, 1, OVERVIEW_LINES_PER_FILE - 1, OVERVIEW_LINES_PER_FILE,
     OVERVIEW_LINES_PER_FILE + 1, MaxChanged}

\* The lists of hunks drawn: none, one, two
PreviewHunks ==
    {<<>>}
    \cup {<<PreviewHunk(0, n, lead, trail)>> :
             n \in ChangedCounts, lead \in 0..1, trail \in 0..1}
    \cup {<<PreviewHunk(0, n, lead, trail), PreviewHunk(n, m, 0, trail2)>> :
             n \in ChangedCounts, m \in ChangedCounts, lead \in 0..1, trail \in 0..1,
             trail2 \in 0..1}

PreviewFiles ==
    {MkFile("src/new.ts", oldPath, status, hunks, FALSE) :
        oldPath \in {Absent, Some("src/old.ts")}, status \in {"modified", "renamed"},
        hunks \in PreviewHunks}
    \cup {MkFile("logo.png", Absent, "added", <<>>, TRUE)}

InitPreview ==
    /\ pc = "ready"
    /\ previewFile \in PreviewFiles
    /\ preview = None
    /\ EstimateIdle /\ ExecutorIdle
    /\ StrategyIdle /\ ParseIdle /\ ClassifyFileIdle /\ ClassifyDiffIdle /\ BudgetIdle
    /\ FlowIdle

FormatFileForOverview ==
    /\ pc = "ready"
    /\ preview' = formatFileForOverview(previewFile)
    /\ pc' = "done"
    /\ UNCHANGED <<executorVars, estimateVars, previewFile, strategyVars, parseVars,
                   classifyFileVars, classifyDiffVars, budgetVars, flowVars>>

NextPreview == FormatFileForOverview

SpecPreview == InitPreview /\ [][NextPreview]_vars

\* The changed lines of a file as the preview writes them, in the order of
\* the file
ChangedLinesOf(f) ==
    Flat([k \in 1..Len(f.hunks) |->
            SelectSeq([j \in 1..Len(f.hunks[k].lines) |->
                         IF f.hunks[k].lines[j].type = "add"
                         THEN "+" \o f.hunks[k].lines[j].content
                         ELSE IF f.hunks[k].lines[j].type = "delete"
                         THEN "-" \o f.hunks[k].lines[j].content
                         ELSE ""],
                      LAMBDA l : l # "")])

IsPreviewChange(l) == StartsWith(l, "+") \/ StartsWith(l, "-")
IsPreviewNote(l) == StartsWith(l, "... (")

\* C27: the preview of a non-binary file shows the first changed lines of
\* the file, at most 20 of them and no others, and it has the note
\* '... (N more changed lines)' exactly when the file has more than 20
\* changed lines, N being the number of changed lines of the file minus 20
C27_PreviewTruncation ==
    (pc = "done" /\ ~previewFile.isBinary) =>
        /\ SelectSeq(Split(preview, "\n"), IsPreviewChange)
              = SubSeq(ChangedLinesOf(previewFile), 1,
                       Min(OVERVIEW_LINES_PER_FILE, Len(ChangedLinesOf(previewFile))))
        /\ SelectSeq(Split(preview, "\n"), IsPreviewNote)
              = IF Len(ChangedLinesOf(previewFile)) > OVERVIEW_LINES_PER_FILE
                THEN <<"... ("
                       \o NumberToString(Len(ChangedLinesOf(previewFile))
                                         - OVERVIEW_LINES_PER_FILE)
                       \o " more changed lines)">>
                ELSE <<>>

====
